---- MODULE Spec2Model ----
(***************************************************************************)
(* The Producer side of the browser-url authority exchange of ts-odd:      *)
(* provide, messageHandler and ProviderSession (handshake, query,          *)
(* approveQueries, dismissQueries), from                                   *)
(* src/components/authority/browser-url/provider.ts.                       *)
(*                                                                         *)
(* Encryption is symbolic: a cipher text is the record of the key, the     *)
(* nonce and the plain text it was made of, and decryption yields the      *)
(* plain text only under the same key and nonce.                           *)
(***************************************************************************)
EXTENDS Integers, Sequences, FiniteSets, Bags, TLC

----------------------------------------------------------------------------
(* Bounds *)

MaxOps == 4        \* sessions kept, provide:query events and continuation calls in one behaviour
MaxQueries == 2    \* longest query list of a request
MaxOpsPair == 5    \* as MaxOps, for a behaviour with two remote parties
MaxAdds == 2       \* Cabinet operations in one behaviour

----------------------------------------------------------------------------
(* Values *)

RemoteDIDs == {"did:key:A", "did:key:B"}

\* randomBytes(16): byte strings are compared for equality only, so one value
\* stands for the challenge and one for any other byte string.
ChallengeBytes == 1
OtherBytes == 2

IdentifierDID == "did:key:producer"
RemoteIdentifier == "did:key:consumer"
FileSystemDID == "did:key:fs"

PrivateRoot == <<"private">>
PrivateApps == <<"private", "Apps">>

\* A query names what it asks for: an account query a scope, the abilities
\* wanted or the wildcard; a file-system query an access mode.
Wildcard == {"*"}
Query(query, did, path, scope, mode) ==
  [query |-> query, did |-> did, path |-> path, scope |-> scope, mode |-> mode]
AccountQuery == Query("account", "", <<>>, Wildcard, "")
FileSystemQuery(did, path) == Query("fileSystem", did, path, {}, "write")

Queries ==
  {AccountQuery}
    \cup {FileSystemQuery(FileSystemDID, p) : p \in {PrivateRoot, PrivateApps}}

\* JSON values and byte strings, as tagged records.
Bytes(c) == [type |-> "bytes", bytes |-> c]
JString(s) == [type |-> "string", value |-> s]
JNumber == [type |-> "number", value |-> "0"]
JArray(items) == [type |-> "array", items |-> items]
JObject(queries, identifier) == [type |-> "object", queries |-> queries, identifier |-> identifier]

isObject(v) == v.type = "object"
isString(v) == v.type = "string"
isArray(v) == v.type = "array"

\* The JSON form of a query, as it travels in a payload.
QueryToJSON(q) ==
  [type |-> "object", q |-> q.query, d |-> q.did, p |-> q.path, s |-> q.scope, m |-> q.mode]
QueryFromJSON(j) == Query(j.q, j.d, j.p, j.s, j.m)

SeqsUpTo(S, n) == UNION {[1 .. k -> S] : k \in 0 .. n}
Map(f(_), s) == [i \in 1 .. Len(s) |-> f(s[i])]
Elements(seq) == {seq[i] : i \in 1 .. Len(seq)}

\* What the Producer was set up to offer.
OfferedQueries == <<FileSystemQuery(FileSystemDID, PrivateApps)>>

\* The lists the caller may pass to approve, for an event carrying queries:
\* nothing, all that was asked, or what is on offer.
Selections(queries) == {<<>>, queries, OfferedQueries}

DecryptionError == [type |-> "DecryptionError"]
ApprovedAck == [type |-> "object", approved |-> TRUE]
DismissedNotice == [type |-> "object", dismissed |-> TRUE]

\* Payload bodies a remote party may put in a message.
HandshakeBodies == {Bytes(ChallengeBytes), Bytes(OtherBytes)}
\* The Producer reads a request as a whole (every, some, filter), so one
\* order of each choice of queries stands for all its orders.
Listed ==
  <<AccountQuery, FileSystemQuery(FileSystemDID, PrivateRoot), FileSystemQuery(FileSystemDID, PrivateApps)>>
RequestLists ==
  {Map(LAMBDA n : Listed[n], ns) :
     ns \in {f \in SeqsUpTo(1 .. Len(Listed), MaxQueries) :
               \A i, j \in DOMAIN f : i < j => f[i] <= f[j]}}
WellFormedBody(qs) == JObject(JArray(Map(QueryToJSON, qs)), JString(RemoteIdentifier))
MalformedBodies ==
  { JNumber,
    JObject(JNumber, JString(RemoteIdentifier)),
    JObject(JArray(<<JNumber>>), JString(RemoteIdentifier)),
    JObject(JArray(<<QueryToJSON(AccountQuery)>>), JNumber) }
QueryBodies(qs) == {WellFormedBody(qs)} \cup MalformedBodies

----------------------------------------------------------------------------
(* Cipher envelope *)

makeCipher(nonce, remoteDID) ==
  [cipher |-> [key |-> remoteDID, nonce |-> nonce], nextNonce |-> nonce + 1]

encryptJSONPayload(cipher, body) ==
  [key |-> cipher.key, nonce |-> cipher.nonce, body |-> body]

decryptPayload(cipher, payload) ==
  IF payload.key = cipher.key /\ payload.nonce = cipher.nonce
  THEN payload.body
  ELSE DecryptionError

decryptJSONPayload(cipher, payload) == decryptPayload(cipher, payload)

\* Inbound channel messages from the remote parties dids, for a Producer
\* whose challenge is c and remote parties that want the queries qs.  A
\* payload is made under the sender's key and a nonce counted from the
\* challenge: a handshake payload opens under offset 0 only and a query
\* payload under offset QueryOffset only, so one body stands for the payloads
\* of the other offset and for the payloads made under a foreign key.
Msg(did, step, key, nonce, body) ==
  [did |-> did, step |-> step, payload |-> [key |-> key, nonce |-> nonce, body |-> body]]
QueryOffset == 2
ForeignDID == "did:key:E"
Messages(dids, c, qs) ==
  {Msg(d, "handshake", d, c, b) : d \in dids, b \in HandshakeBodies}
    \cup {Msg(d, "handshake", d, c + QueryOffset, Bytes(c)) : d \in dids}
    \cup {Msg(d, "handshake", ForeignDID, c, Bytes(c)) : d \in dids}
    \cup {Msg(d, "query", d, c + QueryOffset, b) : d \in dids, b \in QueryBodies(qs)}
    \cup {Msg(d, "query", d, c, WellFormedBody(qs)) : d \in dids}

----------------------------------------------------------------------------
(* Query model *)

IsPrefix(a, b) == Len(a) <= Len(b) /\ \A i \in 1 .. Len(a) : a[i] = b[i]

\* A scope covers another when it is the wildcard or holds all of it; an
\* access mode is at least another when it ranks no lower.
covers(parentScope, childScope) == "*" \in parentScope \/ childScope \subseteq parentScope
rank(mode) == IF mode = "write" THEN 2 ELSE IF mode = "read" THEN 1 ELSE 0
partitionOf(path) == IF Len(path) = 0 THEN "" ELSE path[1]

isContained_properPrefix(parent, child) ==
  IF parent.query = "account" /\ child.query = "account"
  THEN parent.did = child.did /\ covers(parent.scope, child.scope)
  ELSE IF parent.query = "fileSystem" /\ child.query = "fileSystem"
  THEN /\ parent.did = child.did
       /\ partitionOf(parent.path) = partitionOf(child.path)
       /\ IsPrefix(parent.path, child.path) /\ parent.path # child.path
       /\ rank(parent.mode) >= rank(child.mode)
  ELSE FALSE

isContained(parent, child) ==
  IF parent.query = "account" /\ child.query = "account"
  THEN parent.did = child.did /\ covers(parent.scope, child.scope)
  ELSE IF parent.query = "fileSystem" /\ child.query = "fileSystem"
  THEN /\ parent.did = child.did
       /\ partitionOf(parent.path) = partitionOf(child.path)
       /\ IsPrefix(parent.path, child.path)
       /\ rank(parent.mode) >= rank(child.mode)
  ELSE FALSE

----------------------------------------------------------------------------
(* State *)

VARIABLES
  challenge,       \* provide: the challenge of this Producer
  remotes,         \* the remote parties that send messages
  request,         \* the queries the remote parties ask for
  sessions,        \* every ProviderSession constructed so far, by number
  sessionsCache,   \* provide: remote DID -> number of the cached session, 0 for none
  pending,         \* the provide:query events emitted so far, with their promise
  outbox,          \* messages put on the channel, in order
  accepted,        \* bag of the inbound messages that produced a reply or an event
  calls,           \* number of continuation calls made
  last,            \* what the last operation was and did
  collection,      \* Cabinet: the collection in memory
  storage,         \* Cabinet: the persisted form of the collection
  indexes,         \* Cabinet: accessKeys, ucansIndexedByAudience, ucansIndexedByCID
  adding,          \* Cabinet: the add calls that wait for their turn, in order
  journal,         \* Cabinet: the operations carried out so far, in order
  applied          \* the library function applied last: its name, arguments and result

VARIABLES
  rootTree,        \* FileSystem.#rootTree
  privateNodes,    \* FileSystem.#privateNodes: the mounted private nodes
  cidLog,          \* FileSystem.#cidLog
  localOnly,       \* FileSystem.#localOnly
  transactions,    \* the calls of transaction(): position, context, options, result
  accumulated,     \* debounce: the calls accumulated since the timer was armed
  running,         \* debounce: the invocations of the debounced function
  events,          \* FileSystem.#eventEmitter: the events emitted, in order
  called,          \* the calls made to depot.flush and updateDataRoot, in order
  transport,       \* depot: t, the flush that created the transport, 0 for null
  online,          \* depot: manners.program.online()
  flushes          \* depot: the calls of flush and where each stands

providerVars ==
  <<challenge, remotes, request, sessions, sessionsCache, pending, outbox, accepted, calls, last>>
cabinetVars == <<collection, storage, indexes, adding, journal>>
libraryVars == <<applied>>
fileSystemVars ==
  <<rootTree, privateNodes, cidLog, localOnly, transactions, accumulated, running, events, called>>
depotVars == <<transport, online, flushes>>
vars == <<challenge, remotes, request, sessions, sessionsCache, pending, outbox, accepted, calls, last,
          collection, storage, indexes, adding, journal, applied,
          rootTree, privateNodes, cidLog, localOnly, transactions, accumulated, running, events, called,
          transport, online, flushes>>

\* A library function with its arguments, before and after it has returned.
Asked(fn, args) == [fn |-> fn, args |-> args, returned |-> FALSE, result |-> <<>>]
Answered(asked, result) == [asked EXCEPT !.returned = TRUE, !.result = result]
Idle == Asked("none", <<>>)

NoSession == 0

\* What a behaviour has used of its bound: the sessions kept, the events
\* emitted and the continuation calls made.
Ops == Len(sessions) + Len(pending) + calls
Budget == IF Cardinality(remotes) > 1 THEN MaxOpsPair ELSE MaxOps

\* new ProviderSession({...params, remoteDID}): a session starts at the
\* handshake step, its nonce seeded by the challenge.
ProviderSession_atQuery(sid, remoteDID) ==
  [sid |-> sid, remoteDID |-> remoteDID, challenge |-> challenge,
   step |-> "query", nonce |-> challenge]

ProviderSession(sid, remoteDID) ==
  [sid |-> sid, remoteDID |-> remoteDID, challenge |-> challenge,
   step |-> "handshake", nonce |-> challenge]

ended(self) == self.step = "ended"

end(self) == [nextNonce |-> self.nonce, nextStep |-> "ended"]

sendMessage(self, step, payload) ==
  [sid |-> self.sid, to |-> self.remoteDID, step |-> step, payload |-> payload]

\* Results of a step: a StepResult, a suspension on the caller's decision,
\* or a thrown error.
NotOpened == [type |-> "not-opened"]

Returned(res, exit, sent, payload) ==
  [kind |-> "return", nextNonce |-> res.nextNonce, nextStep |-> res.nextStep,
   exit |-> exit, sent |-> sent, payload |-> payload]
Thrown(self, payload) ==
  [kind |-> "throw", nextNonce |-> self.nonce, nextStep |-> self.step,
   exit |-> FALSE, sent |-> <<>>, payload |-> payload]
Suspended(self, cipher, queries, identifier, payload) ==
  [kind |-> "suspend", nextNonce |-> self.nonce, nextStep |-> self.step,
   exit |-> FALSE, sent |-> <<>>, payload |-> payload,
   cipher |-> cipher, queries |-> queries, identifier |-> identifier]

earlyExit(self, payload) == Returned(end(self), TRUE, <<>>, payload)

----------------------------------------------------------------------------
(* ProviderSession *)

hasCorrectChallenge_any(payload, sessionChallenge) == payload.type = "bytes"

hasCorrectChallenge(payload, sessionChallenge) == payload = Bytes(sessionChallenge)

handshakeReply_echo(cipher, payload) == encryptJSONPayload(cipher, payload)

\* The reply of a successful handshake: { approved: true }, encrypted.
handshakeReply(cipher, payload) == encryptJSONPayload(cipher, ApprovedAck)

handshake(self, msg) ==
  LET decryption == makeCipher(self.nonce, self.remoteDID)
      payload == decryptPayload(decryption.cipher, msg.payload)
  IN  IF payload = DecryptionError THEN Thrown(self, payload)
      ELSE IF ~hasCorrectChallenge(payload, self.challenge) THEN earlyExit(self, payload)
      ELSE LET next == makeCipher(decryption.nextNonce, self.remoteDID)
           IN  Returned([nextNonce |-> next.nextNonce, nextStep |-> "query"], FALSE,
                        <<sendMessage(self, "handshake", handshakeReply(next.cipher, payload))>>,
                        payload)

isWellFormed_noIdentifier(payload) ==
  /\ isObject(payload)
  /\ isArray(payload.queries)
  /\ \A i \in 1 .. Len(payload.queries.items) :
       isString(payload.queries.items[i]) \/ isObject(payload.queries.items[i])

isWellFormed(payload) ==
  /\ isObject(payload)
  /\ isArray(payload.queries)
  /\ \A i \in 1 .. Len(payload.queries.items) :
       isString(payload.queries.items[i]) \/ isObject(payload.queries.items[i])
  /\ isString(payload.identifier)

allContained(queries) ==
  \A c \in 1 .. Len(queries) :
    \E p \in 1 .. Len(queries) : isContained(queries[p], queries[c])

query_inverted(self, msg) ==
  LET decryption == makeCipher(self.nonce, self.remoteDID)
      payload == decryptJSONPayload(decryption.cipher, msg.payload)
  IN  IF payload = DecryptionError THEN Thrown(self, payload)
      ELSE IF ~isWellFormed(payload) THEN earlyExit(self, payload)
      ELSE LET queries == Map(QueryFromJSON, payload.queries.items)
           IN  IF allContained(queries) THEN earlyExit(self, payload)
               ELSE Suspended(self, makeCipher(decryption.nextNonce, self.remoteDID).cipher,
                              queries, payload.identifier.value, payload)

query(self, msg) ==
  LET decryption == makeCipher(self.nonce, self.remoteDID)
      payload == decryptJSONPayload(decryption.cipher, msg.payload)
  IN  IF payload = DecryptionError THEN Thrown(self, payload)
      ELSE IF ~isWellFormed(payload) THEN earlyExit(self, payload)
      ELSE LET queries == Map(QueryFromJSON, payload.queries.items)
           IN  IF ~allContained(queries) THEN earlyExit(self, payload)
               ELSE Suspended(self, makeCipher(decryption.nextNonce, self.remoteDID).cipher,
                              queries, payload.identifier.value, payload)

\* Session.proceed: the message must be of the session's current step; a
\* failed decryption ends the session like any other protocol error.
proceed(self, msg) ==
  IF ended(self) THEN Returned(end(self), FALSE, <<>>, NotOpened)
  ELSE IF msg.step # self.step THEN earlyExit(self, NotOpened)
  ELSE LET r == IF self.step = "handshake" THEN handshake(self, msg) ELSE query(self, msg)
       IN  IF r.kind = "throw" THEN earlyExit(self, r.payload) ELSE r

----------------------------------------------------------------------------
(* Tickets and the Inventory *)

RootDID == "did:key:root"

\* Path.toPosix of a directory path.
RECURSIVE toPosix(_)
toPosix(path) == IF Len(path) = 0 THEN "" ELSE Head(path) \o "/" \o toPosix(Tail(path))

RECURSIVE Joined(_)
Joined(strings) == IF Len(strings) = 0 THEN "" ELSE Head(strings) \o ";" \o Joined(Tail(strings))

\* Ucan.encode: the token in text; Ucan.cid: the hash of the token, in text.
Ucan_encode(u) ==
  u.issuer \o ">" \o u.audience \o ":" \o u.resource.category \o ":" \o u.resource.did
    \o "/" \o toPosix(u.resource.path)
    \o "[" \o Joined(u.proofs) \o "]"
    \o "{" \o Joined([i \in DOMAIN u.facts |-> u.facts[i].key \o "=" \o u.facts[i].item]) \o "}"
Ucan_cid(u) == "cid:" \o Ucan_encode(u)

\* A ticket names its proofs by their content hashes; its facts are an
\* object, none unless stated. Its own content hash is taken once, when the
\* ticket is made.
Hashed(u) ==
  [issuer |-> u.issuer, audience |-> u.audience, resource |-> u.resource, proofs |-> u.proofs,
   facts |-> u.facts, cid |-> Ucan_cid(u)]
Ticket(issuer, audience, resource, proofs) ==
  Hashed([issuer |-> issuer, audience |-> audience, resource |-> resource, proofs |-> proofs,
          facts |-> <<>>])
WithFacts(t, facts) == Hashed([t EXCEPT !.facts = facts])

FileSystemResource(did, path) == [category |-> "file_system", did |-> did, path |-> path]
AccountResource == [category |-> "account", did |-> "", path |-> <<>>]

----------------------------------------------------------------------------
(* The Cabinet *)

\* Tickets and access keys that are put into a Cabinet.
RootTicket == Ticket(RootDID, IdentifierDID, FileSystemResource(FileSystemDID, PrivateRoot), <<>>)
AppsTicket == Ticket(RootDID, IdentifierDID, FileSystemResource(FileSystemDID, PrivateApps), <<>>)
OriginTicket ==
  Ticket(IdentifierDID, IdentifierDID, FileSystemResource(FileSystemDID, PrivateRoot), <<>>)
AccountTicket == Ticket(RootDID, IdentifierDID, AccountResource, <<>>)
PrivateKey == [did |-> FileSystemDID, path |-> PrivateRoot, key |-> "key:private"]
RotatedKey == [did |-> FileSystemDID, path |-> PrivateRoot, key |-> "key:rotated"]

Ucans == {OriginTicket, AppsTicket}
AccessKeys == {PrivateKey, RotatedKey}
UcanLists == {<<u>> : u \in Ucans} \cup {<<u, v>> : u \in Ucans, v \in Ucans}
AccessKeyLists == {<<a>> : a \in AccessKeys} \cup {<<a, b>> : a \in AccessKeys, b \in AccessKeys}

\* CabinetItem: the fields of the caller's record are spread into the item.
UcanItem(u) == [type |-> "ucan", ucan |-> u]
AccessKeyItem(item) ==
  [type |-> "access-key", did |-> item.did, path |-> item.path, key |-> item.key]

\* A collection is an object: its entries in insertion order, one per key.
Entry(key, item) == [key |-> key, item |-> item]
Keys(col) == {col[i].key : i \in DOMAIN col}
Get(col, key) == col[CHOOSE i \in DOMAIN col : col[i].key = key].item
CollectionItems(col) == {col[i].item : i \in DOMAIN col}

\* Object spread {...a, ...b}: a key of a keeps its place and takes the item
\* of b when b has the key; the other keys of b follow in the order of b.
Spread(a, b) ==
  [i \in DOMAIN a |-> IF a[i].key \in Keys(b) THEN Entry(a[i].key, Get(b, a[i].key)) ELSE a[i]]
    \o SelectSeq(b, LAMBDA e : e.key \notin Keys(a))

emptyCollection == <<>>

mergeCollections_second(a, b) == b

mergeCollections_firstWins(a, b) ==
  a \o SelectSeq(b, LAMBDA e : e.key \notin Keys(a))

mergeCollections_concat(a, b) == a \o b

mergeCollections(a, b) == Spread(a, b)

toCollection(item) ==
  IF item.type = "access-key"
  THEN <<Entry(toPosix(item.path), item)>>
  ELSE <<Entry(Ucan_cid(item.ucan), item)>>

\* The three indexes, each a reduce over the entries of the collection.
RECURSIVE accessKeysOf(_)
accessKeysOf(entries) ==
  IF Len(entries) = 0 THEN <<>>
  ELSE LET acc == accessKeysOf(SubSeq(entries, 1, Len(entries) - 1))
           item == entries[Len(entries)].item
       IN  IF item.type = "access-key"
           THEN Append(acc, [path |-> item.path, key |-> item.key])
           ELSE acc

RECURSIVE byAudience(_)
byAudience(entries) ==
  IF Len(entries) = 0 THEN <<>>
  ELSE LET acc == byAudience(SubSeq(entries, 1, Len(entries) - 1))
           v == entries[Len(entries)].item
       IN  IF v.type # "ucan" THEN acc
           ELSE Spread(acc,
                  <<Entry(v.ucan.audience,
                          (IF v.ucan.audience \in Keys(acc) THEN Get(acc, v.ucan.audience) ELSE <<>>)
                            \o <<v.ucan>>)>>)

RECURSIVE byCID(_)
byCID(entries) ==
  IF Len(entries) = 0 THEN <<>>
  ELSE LET acc == byCID(SubSeq(entries, 1, Len(entries) - 1))
           k == entries[Len(entries)].key
           v == entries[Len(entries)].item
       IN  IF v.type # "ucan" THEN acc ELSE Spread(acc, <<Entry(k, v.ucan)>>)

collectionUpdateCallback_audienceOverwrites(col) ==
  [accessKeys |-> accessKeysOf(col),
   ucansIndexedByAudience |->
     [i \in DOMAIN byAudience(col) |->
        Entry(byAudience(col)[i].key,
              <<byAudience(col)[i].item[Len(byAudience(col)[i].item)]>>)],
   ucansIndexedByCID |-> byCID(col)]

collectionUpdateCallback(col) ==
  [accessKeys |-> accessKeysOf(col),
   ucansIndexedByAudience |-> byAudience(col),
   ucansIndexedByCID |-> byCID(col)]

audienceUcans(audience) ==
  IF audience \in Keys(indexes.ucansIndexedByAudience)
  THEN Get(indexes.ucansIndexedByAudience, audience)
  ELSE <<>>

hasAccessKey(path) == toPosix(path) \in Keys(collection)

\* The persisted form of an item and of a collection.
encodeItem(item) ==
  IF item.type = "access-key"
  THEN [type |-> "access-key", key |-> "ref:" \o item.key, path |-> toPosix(item.path)]
  ELSE [type |-> "ucan", ucan |-> Ucan_encode(item.ucan)]

toJSON(col) == [i \in DOMAIN col |-> Entry(col[i].key, encodeItem(col[i].item))]

\* Repository.add: the new items are merged into the collection one by one.
RECURSIVE added(_, _)
added(col, items) ==
  IF Len(items) = 0 THEN col
  ELSE added(mergeCollections(col, toCollection(Head(items))), Tail(items))

\* The Cabinet of a Producer that has been given authority over the file system.
StockedCollection ==
  added(emptyCollection, <<UcanItem(RootTicket), UcanItem(AppsTicket), UcanItem(AccountTicket),
                           AccessKeyItem(PrivateKey)>>)

\* What the Producer's Cabinet holds.
CabinetTickets ==
  {collection[i].item.ucan : i \in {j \in DOMAIN collection : collection[j].item.type = "ucan"}}
CabinetAccessKeys ==
  {[did |-> collection[i].item.did, path |-> collection[i].item.path, key |-> collection[i].item.key] :
     i \in {j \in DOMAIN collection : collection[j].item.type = "access-key"}}
AccountTickets == <<AccountTicket>>

NullTicket == [null |-> TRUE]
NullAccessKey == NullTicket

\* Tickets.cid: the content hash of the ticket's token.
cid(t) == t.cid

\* The proofs the Inventory can resolve: the Cabinet's tickets by content hash.
ProofDictionary == indexes.ucansIndexedByCID

lookupFileSystemTicket_leastSpecific(path, did) ==
  LET matching == {t \in CabinetTickets :
                     /\ t.resource.category = "file_system"
                     /\ t.resource.did = did
                     /\ IsPrefix(t.resource.path, path)}
  IN  IF matching = {} THEN NullTicket
      ELSE CHOOSE t \in matching :
             \A u \in matching : Len(u.resource.path) >= Len(t.resource.path)

lookupFileSystemTicket(path, did) ==
  LET matching == {t \in CabinetTickets :
                     /\ t.resource.category = "file_system"
                     /\ t.resource.did = did
                     /\ IsPrefix(t.resource.path, path)}
  IN  IF matching = {} THEN NullTicket
      ELSE CHOOSE t \in matching :
             \A u \in matching : Len(u.resource.path) <= Len(t.resource.path)

findAccessKey(path, did) ==
  LET matching == {a \in CabinetAccessKeys : a.did = did /\ IsPrefix(a.path, path)}
  IN  IF matching = {} THEN NullAccessKey
      ELSE CHOOSE a \in matching : \A b \in matching : Len(b.path) <= Len(a.path)

provideAuthority(q) == AccountTickets

\* The outcome of bundling: the tickets, or the condition that stopped it.
Bundled(tickets) == [error |-> "none", tickets |-> tickets]
Failed(error) == [error |-> error, tickets |-> <<>>]

\* The tickets reached from a list of proof references, each followed by its
\* own ancestors; visited holds the content hashes on the way from the leaf.
RECURSIVE bundleProofs(_, _, _)
bundleProofs(proofs, dictionary, visited) ==
  IF Len(proofs) = 0 THEN Bundled(<<>>)
  ELSE IF Head(proofs) \notin Keys(dictionary) THEN Failed("ResolverFault")
  ELSE LET t == Get(dictionary, Head(proofs))
       IN  IF cid(t) \in visited THEN Failed("CyclicProofChain")
           ELSE LET ancestors == bundleProofs(t.proofs, dictionary, visited \cup {cid(t)})
                IN  IF ancestors.error # "none" THEN ancestors
                    ELSE LET others == bundleProofs(Tail(proofs), dictionary, visited)
                         IN  IF others.error # "none" THEN others
                             ELSE Bundled(<<t>> \o ancestors.tickets \o others.tickets)

\* As bundleProofs, without the visited hashes: a chain is followed to a
\* fixed depth and cut there.
RECURSIVE bundleProofs_toDepth(_, _, _)
bundleProofs_toDepth(proofs, dictionary, depth) ==
  IF Len(proofs) = 0 \/ depth = 0 THEN Bundled(<<>>)
  ELSE IF Head(proofs) \notin Keys(dictionary) THEN Failed("ResolverFault")
  ELSE LET t == Get(dictionary, Head(proofs))
           ancestors == bundleProofs_toDepth(t.proofs, dictionary, depth - 1)
           others == bundleProofs_toDepth(Tail(proofs), dictionary, depth)
       IN  IF ancestors.error # "none" THEN ancestors
           ELSE IF others.error # "none" THEN others
           ELSE Bundled(<<t>> \o ancestors.tickets \o others.tickets)

bundleTickets_depthLimited(ticket, dictionary) ==
  LET ancestors == bundleProofs_toDepth(ticket.proofs, dictionary, 4)
  IN  IF ancestors.error # "none" THEN ancestors
      ELSE Bundled(<<ticket>> \o ancestors.tickets)

bundleTickets_parentsOnly(ticket, dictionary) ==
  LET ancestors == bundleProofs_toDepth(ticket.proofs, dictionary, 1)
  IN  IF ancestors.error # "none" THEN ancestors
      ELSE Bundled(<<ticket>> \o ancestors.tickets)

bundleTickets(ticket, dictionary) ==
  LET ancestors == bundleProofs(ticket.proofs, dictionary, {cid(ticket)})
  IN  IF ancestors.error # "none" THEN ancestors
      ELSE Bundled(<<ticket>> \o ancestors.tickets)

RECURSIVE collectUnique_keepLast(_)
collectUnique_keepLast(ts) ==
  IF Len(ts) = 0 THEN <<>>
  ELSE LET rest == collectUnique_keepLast(Tail(ts))
       IN  IF \E i \in 1 .. Len(rest) : cid(rest[i]) = cid(Head(ts)) THEN rest ELSE <<Head(ts)>> \o rest

RECURSIVE collectUnique(_)
collectUnique(ts) ==
  IF Len(ts) = 0 THEN <<>>
  ELSE LET init == collectUnique(SubSeq(ts, 1, Len(ts) - 1))
           t == ts[Len(ts)]
       IN  IF \E i \in 1 .. Len(init) : cid(init[i]) = cid(t) THEN init ELSE Append(init, t)

RECURSIVE Flat(_)
Flat(ss) == IF Len(ss) = 0 THEN <<>> ELSE Head(ss) \o Flat(Tail(ss))

RECURSIVE Filter(_, _)
Filter(keep(_), s) ==
  IF Len(s) = 0 THEN <<>>
  ELSE IF keep(Head(s)) THEN <<Head(s)>> \o Filter(keep, Tail(s)) ELSE Filter(keep, Tail(s))

isPartition(partition, path) == Len(path) > 0 /\ path[1] = partition

\* rootIssuer: the issuer at the root of the proof chain of a ticket, by the
\* first proof of every link.
RECURSIVE rootIssuer(_, _)
rootIssuer(t, dictionary) ==
  IF Len(t.proofs) = 0 THEN t.issuer ELSE rootIssuer(Get(dictionary, t.proofs[1]), dictionary)

\* listFacts: the facts of every link of the chain of a ticket as one
\* object, a link nearer the leaf overriding the links behind it.
RECURSIVE listFacts_rootWins(_, _)
listFacts_rootWins(t, dictionary) ==
  IF Len(t.proofs) = 0 \/ t.proofs[1] \notin Keys(dictionary) THEN t.facts
  ELSE Spread(t.facts, listFacts_rootWins(Get(dictionary, t.proofs[1]), dictionary))

RECURSIVE listFacts(_, _)
listFacts(t, dictionary) ==
  IF Len(t.proofs) = 0 \/ t.proofs[1] \notin Keys(dictionary) THEN t.facts
  ELSE Spread(listFacts(Get(dictionary, t.proofs[1]), dictionary), t.facts)

delegate_noProof(t, remoteIdentifierDID) ==
  bundleTickets(Ticket(IdentifierDID, remoteIdentifierDID, t.resource, <<>>), ProofDictionary)

delegate_swapped(t, remoteIdentifierDID) ==
  bundleTickets(Ticket(remoteIdentifierDID, IdentifierDID, t.resource, <<cid(t)>>), ProofDictionary)

\* Ucan.build + Ucan.toTicket + Inventory.bundleTickets for one ticket.
delegate(t, remoteIdentifierDID) ==
  bundleTickets(Ticket(IdentifierDID, remoteIdentifierDID, t.resource, <<cid(t)>>), ProofDictionary)

----------------------------------------------------------------------------
(* approveQueries and dismissQueries *)

\* The bundles made for the account queries and for the file-system queries
\* of an approval, one for every ticket obtained.
accountBundles(queries, remoteIdentifierDID) ==
  LET isAccount(q) == q.query = "account"
      bundles(q) == Map(LAMBDA t : delegate(t, remoteIdentifierDID), provideAuthority(q))
  IN  Flat(Map(bundles, Filter(isAccount, queries)))

fileSystemBundles(queries, remoteIdentifierDID) ==
  LET isFs(q) == q.query = "fileSystem"
      notNull(x) == x # NullTicket
      lookup(q) == lookupFileSystemTicket(q.path, q.did)
      bundle(t) == delegate(t, remoteIdentifierDID)
  IN  Map(bundle, Filter(notNull, Map(lookup, Filter(isFs, queries))))

approvalOf_allPartitions(queries, accountTicketsBundles, fileSystemTicketBundles) ==
  LET isFs(q) == q.query = "fileSystem"
      notNull(x) == x # NullTicket
      fsQueries == Filter(isFs, queries)
      tickets(bundle) == bundle.tickets
      findKey(q) == findAccessKey(q.path, q.did)
  IN  [type |-> "object",
       approved |-> Map(QueryToJSON, queries),
       accountTickets |-> collectUnique(Flat(Map(tickets, accountTicketsBundles))),
       fileSystemTickets |-> collectUnique(Flat(Map(tickets, fileSystemTicketBundles))),
       accessKeys |-> Filter(notNull, Map(findKey, fsQueries))]

\* The payload of an approval, given the bundles made for it.
approvalOf(queries, accountTicketsBundles, fileSystemTicketBundles) ==
  LET isFs(q) == q.query = "fileSystem"
      notNull(x) == x # NullTicket
      isPrivate(q) == isPartition("private", q.path)
      fsQueries == Filter(isFs, queries)
      tickets(bundle) == bundle.tickets
      accountTickets == collectUnique(Flat(Map(tickets, accountTicketsBundles)))
      fileSystemTickets == collectUnique(Flat(Map(tickets, fileSystemTicketBundles)))
      findKey(q) == findAccessKey(q.path, q.did)
      accessKeys == Filter(notNull, Map(findKey, Filter(isPrivate, fsQueries)))
  IN  [type |-> "object",
       approved |-> Map(QueryToJSON, queries),
       accountTickets |-> accountTickets,
       fileSystemTickets |-> fileSystemTickets,
       accessKeys |-> accessKeys]

approvalPayload(queries, remoteIdentifierDID) ==
  approvalOf(queries, accountBundles(queries, remoteIdentifierDID),
             fileSystemBundles(queries, remoteIdentifierDID))

\* approveQueries once the bundles are made: it throws when a ticket could
\* not be bundled, else it sends the approval and emits the authorised events.
approveBundled(self, queries, cipher, accountTicketsBundles, fileSystemTicketBundles) ==
  IF \E b \in Elements(accountTicketsBundles) \cup Elements(fileSystemTicketBundles) :
       b.error # "none"
  THEN [throws |-> TRUE, sent |-> <<>>, emitted |-> <<>>, trace |-> <<"throw">>]
  ELSE [throws |-> FALSE,
        sent |-> <<sendMessage(self, "query",
                     encryptJSONPayload(cipher,
                       approvalOf(queries, accountTicketsBundles, fileSystemTicketBundles)))>>,
        emitted |-> <<"provide:authorised", "provide:authorized">>,
        trace |-> <<"sendMessage", "emit", "emit">>]

approveQueries_anyList(self, queries, remoteIdentifierDID, cipher) ==
  approveBundled(self, queries, cipher,
                 accountBundles(queries, remoteIdentifierDID),
                 fileSystemBundles(queries, remoteIdentifierDID))

\* The effects of approveQueries: it throws on an empty list and when a
\* ticket cannot be bundled, else it sends the approval and emits the
\* authorised events. The trace lists the calls in program order.
approveQueries(self, queries, remoteIdentifierDID, cipher) ==
  IF Len(queries) = 0
  THEN [throws |-> TRUE, sent |-> <<>>, emitted |-> <<>>, trace |-> <<"throw">>]
  ELSE approveBundled(self, queries, cipher,
                      accountBundles(queries, remoteIdentifierDID),
                      fileSystemBundles(queries, remoteIdentifierDID))

dismissQueries(self, cipher) ==
  [throws |-> FALSE,
   sent |-> <<sendMessage(self, "query", encryptJSONPayload(cipher, DismissedNotice))>>,
   emitted |-> <<"provide:dismissed">>,
   trace |-> <<"sendMessage", "emit">>]

----------------------------------------------------------------------------
(* provide and messageHandler *)

NoMessage == [type |-> "none"]
Undecodable == [type |-> "undecodable"]
\* With two remote parties each sends the messages of an honest Consumer; a
\* message that is out of step for the session it meets is rejected as such.
HonestMessages(dids, c, qs) ==
  {Msg(d, "handshake", d, c, Bytes(c)) : d \in dids}
    \cup {Msg(d, "query", d, c + QueryOffset, WellFormedBody(qs)) : d \in dids}

ChannelData ==
  IF Cardinality(remotes) > 1
  THEN HonestMessages(remotes, challenge, request)
  ELSE Messages(remotes, challenge, request) \cup {Undecodable}

\* decodeChannelData: null for data that is not a message.
decodeChannelData(data) == IF data = Undecodable THEN NoMessage ELSE data

\* What an operation did: the session it ran on (as it was before), the step
\* and the opened payload of the message, how the session's step function
\* ended, the messages sent and events emitted, in order, and the order of
\* the sends, the emits and the end of the session among each other.
Effects(op, before, step, payload, kind, exit, sent, emitted, arg, idx, trace) ==
  [op |-> op, before |-> before, step |-> step, payload |-> payload, kind |-> kind,
   exit |-> exit, sent |-> sent, emitted |-> emitted, arg |-> arg, idx |-> idx,
   trace |-> trace]

NoSessionRecord ==
  [sid |-> NoSession, remoteDID |-> "", challenge |-> 0, step |-> "", nonce |-> 0]

\* The Cabinet the Producer was constructed with.
Stocked ==
  /\ collection = StockedCollection
  /\ storage = toJSON(StockedCollection)
  /\ indexes = collectionUpdateCallback(StockedCollection)
  /\ adding = <<>>
  /\ journal = <<>>

\* FileSystem.empty: an empty public tree and an empty private tree at the
\* root, the private root mounted, nothing logged, published or emitted.
EmptyFileSystem ==
  /\ rootTree = [publicRoot |-> {}, privateForest |-> {}]
  /\ privateNodes = [mount \in {PrivateRoot} |-> {}]
  /\ cidLog = <<>>
  /\ transactions = <<>>
  /\ accumulated = <<>>
  /\ running = <<>>
  /\ events = <<>>
  /\ called = <<>>

\* The depot as implementation() returns it: no transport yet.
NoTransport == 0
FreshDepot ==
  /\ transport = NoTransport
  /\ online = TRUE
  /\ flushes = <<>>

Elsewhere ==
  /\ EmptyFileSystem
  /\ localOnly = FALSE
  /\ FreshDepot

\* provide: a fresh challenge, an empty session cache, the channel established.
Init ==
  /\ challenge = ChallengeBytes
  /\ remotes = {"did:key:A"}
  /\ request \in RequestLists
  /\ sessions = <<>>
  /\ sessionsCache = [d \in RemoteDIDs |-> NoSession]
  /\ pending = <<>>
  /\ outbox = <<>>
  /\ accepted = EmptyBag
  /\ calls = 0
  /\ last = Effects("provide", NoSessionRecord, "", NotOpened, "return", FALSE, <<>>, <<>>, <<>>, 0, <<>>)
  /\ Stocked
  /\ applied = Idle
  /\ Elsewhere

\* provide, with two remote parties that each ask for what is on offer.
InitPair ==
  /\ challenge = ChallengeBytes
  /\ remotes = RemoteDIDs
  /\ request = OfferedQueries
  /\ sessions = <<>>
  /\ sessionsCache = [d \in RemoteDIDs |-> NoSession]
  /\ pending = <<>>
  /\ outbox = <<>>
  /\ accepted = EmptyBag
  /\ calls = 0
  /\ last = Effects("provide", NoSessionRecord, "", NotOpened, "return", FALSE, <<>>, <<>>, <<>>, 0, <<>>)
  /\ Stocked
  /\ applied = Idle
  /\ Elsewhere

evict_all(cache, did, session) ==
  IF ended(session) THEN [d \in DOMAIN cache |-> NoSession] ELSE [cache EXCEPT ![did] = session.sid]

evict_never(cache, did, session) == [cache EXCEPT ![did] = session.sid]

\* The handler's last lines: the session is in the cache, and dropped once ended.
evict(cache, did, session) ==
  IF ended(session) THEN [cache EXCEPT ![did] = NoSession] ELSE [cache EXCEPT ![did] = session.sid]

\* Sessions are numbered as they are constructed; a session that ends in the
\* handler that constructed it is referenced by nothing and is not recorded.
\* The message, the session, the result of proceed and the session after it
\* are each bound once, as the handler's locals are.
messageHandler(data) ==
  /\ UNCHANGED <<challenge, remotes, request, calls>>
  /\ UNCHANGED cabinetVars
  /\ UNCHANGED libraryVars
  /\ UNCHANGED fileSystemVars
  /\ UNCHANGED depotVars
  /\ \E msg \in {decodeChannelData(data)} :
       IF msg = NoMessage
       THEN /\ UNCHANGED <<sessions, sessionsCache, pending, outbox, accepted>>
            /\ last' = Effects("ignored", NoSessionRecord, "", NotOpened, "return", FALSE,
                               <<>>, <<>>, <<>>, 0, <<>>)
       ELSE \E self \in {IF sessionsCache[msg.did] # NoSession
                          THEN sessions[sessionsCache[msg.did]]
                          ELSE ProviderSession(Len(sessions) + 1, msg.did)} :
            \E r \in {proceed(self, msg)} :
            \E after \in {IF r.kind = "suspend" THEN self
                           ELSE [self EXCEPT !.step = r.nextStep, !.nonce = r.nextNonce]} :
              LET sessionFromCache == sessionsCache[msg.did]
              IN  /\ sessionFromCache = NoSession /\ ~ended(after) => Ops < Budget
                  /\ r.kind = "suspend" => Ops < Budget
                  /\ sessions' = IF sessionFromCache # NoSession
                                 THEN [sessions EXCEPT ![self.sid] = after]
                                 ELSE IF ended(after) THEN sessions
                                 ELSE Append(sessions, after)
                  /\ sessionsCache' = evict(sessionsCache, msg.did, after)
                  /\ pending' = IF r.kind = "suspend"
                                THEN Append(pending,
                                       [sid |-> self.sid, did |-> msg.did, cipher |-> r.cipher,
                                        queries |-> r.queries, identifier |-> r.identifier,
                                        promise |-> "pending"])
                                ELSE pending
                  /\ outbox' = outbox \o r.sent
                  /\ accepted' = IF r.kind = "suspend" \/ Len(r.sent) > 0
                                 THEN accepted (+) SetToBag({msg})
                                 ELSE accepted
                  /\ last' = Effects("message", self, msg.step, r.payload, r.kind, r.exit, r.sent,
                                     IF r.kind = "suspend" THEN <<"provide:query">> ELSE <<>>,
                                     <<>>, IF r.kind = "suspend" THEN Len(pending) + 1 ELSE 0,
                                     [k \in 1 .. Len(r.sent) |-> "sendMessage"]
                                       \o (IF r.kind = "suspend" THEN <<"emit">> ELSE <<>>)
                                       \o (IF ended(after) THEN <<"ended">> ELSE <<>>))

\* A continuation of the i-th provide:query event has run to its end with
\* effects r: the promise of query() settles once, and when it resolves the
\* handler that awaited it ends the session and drops the cache entry.
settle(op, i, r, arg) ==
  LET p == pending[i]
      self == sessions[p.sid]
      resolves == ~r.throws /\ p.promise = "pending"
      after == IF resolves
               THEN [self EXCEPT !.step = end(self).nextStep, !.nonce = end(self).nextNonce]
               ELSE self
  IN  /\ Ops < Budget
      /\ calls' = calls + 1
      /\ outbox' = outbox \o r.sent
      /\ pending' = [pending EXCEPT ![i].promise =
                       IF @ # "pending" THEN @ ELSE IF r.throws THEN "rejected" ELSE "resolved"]
      /\ sessions' = [sessions EXCEPT ![p.sid] = after]
      /\ sessionsCache' = IF resolves /\ ended(after)
                          THEN [sessionsCache EXCEPT ![p.did] = NoSession]
                          ELSE sessionsCache
      /\ last' = Effects(op, self, "", NotOpened, IF r.throws THEN "throw" ELSE "return",
                         FALSE, r.sent, r.emitted, arg, i,
                         r.trace \o (IF resolves THEN <<"ended">> ELSE <<>>))
      /\ UNCHANGED <<challenge, remotes, request, accepted>>
      /\ UNCHANGED cabinetVars
      /\ UNCHANGED libraryVars
      /\ UNCHANGED fileSystemVars
      /\ UNCHANGED depotVars

approve(i, queries) ==
  /\ i \in 1 .. Len(pending)
  /\ \E r \in {approveQueries(sessions[pending[i].sid], queries,
                                pending[i].identifier, pending[i].cipher)} :
       settle("approve", i, r, queries)

dismiss(i) ==
  /\ i \in 1 .. Len(pending)
  /\ \E r \in {dismissQueries(sessions[pending[i].sid], pending[i].cipher)} :
       settle("dismiss", i, r, <<>>)

Next ==
  \/ \E data \in ChannelData : messageHandler(data)
  \/ \E i \in 1 .. Len(pending) : \E queries \in Selections(pending[i].queries) : approve(i, queries)
  \/ \E i \in 1 .. Len(pending) : dismiss(i)

Spec == Init /\ [][Next]_vars

SpecPair == InitPair /\ [][Next]_vars

----------------------------------------------------------------------------
(* The Cabinet's operations *)

CabinetOps == Len(adding) + Len(journal)

\* An operation that was carried out: the collection it read and the one it
\* left, the indexes it left, how many add calls were waiting behind it, and
\* for an approval the payload that was built.
Done(op, items, base, result, waiting, payload) ==
  [op |-> op, items |-> items, base |-> base, result |-> result,
   indexes |-> collectionUpdateCallback(result), waiting |-> waiting, payload |-> payload]

\* Repo.create: the collection is what the storage holds, or empty.
InitCabinet ==
  /\ challenge = ChallengeBytes
  /\ remotes = {"did:key:A"}
  /\ request = <<>>
  /\ sessions = <<>>
  /\ sessionsCache = [d \in RemoteDIDs |-> NoSession]
  /\ pending = <<>>
  /\ outbox = <<>>
  /\ accepted = EmptyBag
  /\ calls = 0
  /\ last = Effects("provide", NoSessionRecord, "", NotOpened, "return", FALSE, <<>>, <<>>, <<>>, 0, <<>>)
  /\ collection \in {emptyCollection, added(emptyCollection, <<AccessKeyItem(PrivateKey)>>)}
  /\ storage = toJSON(collection)
  /\ indexes = collectionUpdateCallback(collection)
  /\ adding = <<>>
  /\ journal = <<>>
  /\ applied = Idle
  /\ Elsewhere

\* The call of add: it waits for the add calls made before it.
call(items) ==
  /\ adding' = Append(adding, items)
  /\ UNCHANGED <<collection, storage, indexes, journal>>
  /\ UNCHANGED providerVars
  /\ UNCHANGED libraryVars
  /\ UNCHANGED fileSystemVars
  /\ UNCHANGED depotVars

addUcans(ucans) ==
  /\ CabinetOps < MaxAdds
  /\ call(Map(UcanItem, ucans))

addAccessKeys(items) ==
  /\ CabinetOps < MaxAdds
  /\ call(Map(AccessKeyItem, items))

\* add, for the call whose turn it is: read, merge, rebuild the indexes, persist.
add ==
  /\ Len(adding) > 0
  /\ \E result \in {added(collection, Head(adding))} :
       /\ collection' = result
       /\ indexes' = collectionUpdateCallback(result)
       /\ storage' = toJSON(result)
       /\ journal' = Append(journal, Done("add", Head(adding), collection, result,
                                          Len(adding) - 1, NotOpened))
  /\ adding' = Tail(adding)
  /\ UNCHANGED providerVars
  /\ UNCHANGED libraryVars
  /\ UNCHANGED fileSystemVars
  /\ UNCHANGED depotVars

clear ==
  /\ CabinetOps < MaxAdds
  /\ collection' = emptyCollection
  /\ indexes' = collectionUpdateCallback(emptyCollection)
  /\ storage' = toJSON(emptyCollection)
  /\ journal' = Append(journal, Done("clear", <<>>, collection, emptyCollection,
                                     Len(adding), NotOpened))
  /\ UNCHANGED adding
  /\ UNCHANGED providerVars
  /\ UNCHANGED libraryVars
  /\ UNCHANGED fileSystemVars
  /\ UNCHANGED depotVars

\* approveQueries, against the Cabinet as it stands: the payload it builds.
approved(queries) ==
  /\ CabinetOps < MaxAdds
  /\ journal' = Append(journal, Done("approveQueries", queries, collection, collection,
                                     Len(adding), approvalPayload(queries, RemoteIdentifier)))
  /\ UNCHANGED <<collection, storage, indexes, adding>>
  /\ UNCHANGED providerVars
  /\ UNCHANGED libraryVars
  /\ UNCHANGED fileSystemVars
  /\ UNCHANGED depotVars

NextCabinet ==
  \/ \E ucans \in UcanLists : addUcans(ucans)
  \/ \E items \in AccessKeyLists : addAccessKeys(items)
  \/ add
  \/ clear
  \/ \E q \in {x \in Queries : x.query = "fileSystem"} : approved(<<q>>)

SpecCabinet == InitCabinet /\ [][NextCabinet]_vars

----------------------------------------------------------------------------
(* Properties *)

Opened(payload) == payload # NotOpened /\ payload # DecryptionError

\* The session the last operation ran on has ended: it is recorded as ended,
\* or it ended in the handler that constructed it and was never recorded.
EndedNow(before) ==
  before.sid > Len(sessions) \/ sessions[before.sid].step = "ended"

HandledAt(step) ==
  last.op = "message" /\ last.step = step /\ last.before.step = step /\ Opened(last.payload)

DecodedQueries(payload) == Map(QueryFromJSON, payload.queries.items)

WellFormedQueryPayload(payload) ==
  /\ payload.type = "object"
  /\ payload.queries.type = "array"
  /\ \A i \in 1 .. Len(payload.queries.items) : payload.queries.items[i].type \in {"string", "object"}
  /\ payload.identifier.type = "string"

HandledQueryList == HandledAt("query") /\ WellFormedQueryPayload(last.payload)

RejectedByEarlyExit ==
  /\ last.kind = "return" /\ last.exit
  /\ last.sent = <<>> /\ last.emitted = <<>> /\ last.idx = 0
  /\ EndedNow(last.before)

IsApproval(m) == m.step = "query" /\ "approved" \in DOMAIN m.payload.body
IsDismissal(m) == m.step = "query" /\ "dismissed" \in DOMAIN m.payload.body
CarriesAuthority(m) ==
  /\ IsApproval(m)
  /\ \/ Len(m.payload.body.accountTickets) > 0
     \/ Len(m.payload.body.fileSystemTickets) > 0
     \/ Len(m.payload.body.accessKeys) > 0

\* The session of the i-th message of the outbox had, when the message was
\* sent, replied to a handshake and emitted a provide:query event.
SentAfterHandshakeAndQuery(i) ==
  /\ \E j \in 1 .. i - 1 : outbox[j].sid = outbox[i].sid /\ outbox[j].step = "handshake"
  /\ \E k \in 1 .. Len(pending) : pending[k].sid = outbox[i].sid

\* C1: a message carrying tickets or access keys is sent only after a
\* handshake with the correct challenge, a well-formed query message that
\* passed the containment check and an approve call, in this order; a
\* pending, dismissed or early-exited session never transmits one.
C1_AuthorityOnlyAfterApproval ==
  /\ \A i \in 1 .. Len(outbox) : CarriesAuthority(outbox[i]) => SentAfterHandshakeAndQuery(i)
  /\ (Len(last.sent) > 0 /\ CarriesAuthority(last.sent[1])) =>
       /\ last.op = "approve"
       /\ last.before.step = "query"
       /\ \A i \in 1 .. Len(outbox) - 1 : outbox[i].sid = last.before.sid => ~IsDismissal(outbox[i])

\* C2: a well-formed query list with a query that no other query of the list
\* contains is rejected by earlyExit: session ended, no event, no response.
NotContainedByOther(queries) ==
  \E c \in 1 .. Len(queries) :
    \A p \in (1 .. Len(queries)) \ {c} : ~isContained(queries[p], queries[c])

C2_UncontainedQueryExits ==
  (HandledQueryList /\ NotContainedByOther(DecodedQueries(last.payload))) => RejectedByEarlyExit

\* C3: a request for a query that none of the offered queries contains is
\* rejected: no provide:query event is ever emitted for it.
WithinOffer(queries) ==
  \A c \in 1 .. Len(queries) :
    \E o \in 1 .. Len(OfferedQueries) : isContained(OfferedQueries[o], queries[c])

C3_RequestWithinOffer ==
  \A k \in 1 .. Len(pending) : WithinOffer(pending[k].queries)

\* C4, as claimed: a list of which every query is contained by some other
\* query of the list is accepted with one provide:query event and no message,
\* and the session then stays at the query step until approve or dismiss runs.
EachContainedByOther(queries) ==
  \A c \in 1 .. Len(queries) :
    \E p \in (1 .. Len(queries)) \ {c} : isContained(queries[p], queries[c])

AcceptedAndSuspended ==
  /\ last.kind = "suspend" /\ ~last.exit
  /\ last.sent = <<>>
  /\ last.emitted = <<"provide:query">>
  /\ last.idx = Len(pending)
  /\ pending[last.idx].sid = last.before.sid
  /\ pending[last.idx].queries = DecodedQueries(last.payload)
  /\ pending[last.idx].promise = "pending"
  /\ sessions[last.before.sid].step = "query"
  /\ sessionsCache[last.before.remoteDID] = last.before.sid

C4_Accepts ==
  (HandledQueryList /\ EachContainedByOther(DecodedQueries(last.payload))) => AcceptedAndSuspended

Waiting(sid) ==
  /\ sessions[sid].step = "query"
  /\ \E k \in 1 .. Len(pending) : pending[k].sid = sid /\ pending[k].promise = "pending"

C4_Original ==
  [][/\ C4_Accepts'
     /\ \A sid \in 1 .. Len(sessions) :
          (Waiting(sid) /\ sessions'[sid].step # "query") =>
            (last'.op \in {"approve", "dismiss"} /\ last'.before.sid = sid)]_vars

\* C4, amended: ... until approve or dismiss runs, or a further message from
\* the same remote DID ends the session by earlyExit.
C4_StaysUntilDecisionOrAbort ==
  [][/\ C4_Accepts'
     /\ \A sid \in 1 .. Len(sessions) :
          (Waiting(sid) /\ sessions'[sid].step # "query") =>
            /\ last'.before.sid = sid
            /\ \/ last'.op \in {"approve", "dismiss"}
               \/ last'.op = "message" /\ last'.exit]_vars

C4_Witness ==
  /\ HandledQueryList
  /\ Len(DecodedQueries(last.payload)) > 0
  /\ EachContainedByOther(DecodedQueries(last.payload))
  /\ last.kind = "suspend"

\* C5: a handshake payload that is not the session's challenge ends the
\* session by earlyExit: no reply, no query step, nothing retried.
C5_WrongChallengeExits ==
  (HandledAt("handshake") /\ last.payload # Bytes(last.before.challenge)) =>
    /\ RejectedByEarlyExit
    /\ sessionsCache[last.before.remoteDID] = NoSession
    /\ \A k \in 1 .. Len(pending) : pending[k].sid # last.before.sid

C5_Witness ==
  /\ HandledAt("handshake")
  /\ last.payload.type = "bytes" /\ last.payload # Bytes(challenge)
  /\ last.exit

\* C6, as claimed: the Consumer, opening the handshake reply with the nonce
\* after the one of its handshake message, obtains the challenge.
ConsumerOpens(m) ==
  decryptPayload(makeCipher(challenge + 1, m.to).cipher, m.payload)

C7_NoReplayAccepted ==
  \A m \in BagToSet(accepted) : CopiesIn(m, accepted) <= 1

\* C8: the nonce advances by one per message: the handshake reply uses the
\* successor of the handshake's nonce, the query is opened with the successor
\* of that, the response uses the next one, and no nonce serves two different
\* messages of a session.
C8_NonceLockStep ==
  /\ (last.op = "message" /\ Len(last.sent) = 1) =>
       /\ last.sent[1].payload.nonce = last.before.nonce + 1
       /\ sessions[last.before.sid].nonce = last.before.nonce + 2
  /\ (last.op = "message" /\ last.kind = "suspend") =>
       pending[last.idx].cipher.nonce = last.before.nonce + 1
  /\ \A i \in 1 .. Len(outbox) : outbox[i].step = "query" =>
       outbox[i].payload.nonce = sessions[outbox[i].sid].challenge + 3
  /\ \A i, j \in 1 .. Len(outbox) :
       (outbox[i].sid = outbox[j].sid /\ outbox[i].payload.nonce = outbox[j].payload.nonce)
         => outbox[i] = outbox[j]

\* C9: a message whose payload fails decryption under the session's current
\* nonce aborts the session: ended, out of the cache, no reply, not queued.
C9_DecryptionFailureAborts ==
  (last.op = "message" /\ last.payload = DecryptionError) =>
    /\ RejectedByEarlyExit
    /\ sessionsCache[last.before.remoteDID] = NoSession

C9_Witness ==
  /\ last.op = "message" /\ last.payload = DecryptionError
  /\ last.before.step = "query"
  /\ last.before.sid <= Len(sessions)
  /\ sessions[last.before.sid].step = "ended"

\* C10: a query payload that is not well-formed is rejected by earlyExit:
\* session ended, no provide:query event, no response.
C10_MalformedQueryExits ==
  (HandledAt("query") /\ ~WellFormedQueryPayload(last.payload)) =>
    /\ RejectedByEarlyExit
    /\ sessionsCache[last.before.remoteDID] = NoSession

C10_Witness ==
  /\ HandledAt("query")
  /\ last.payload.type = "object" /\ last.payload.identifier.type # "string"
  /\ last.exit

\* C11: a session's step only moves forward, handshake, query, ended; no
\* query-step answer comes from a session that has not replied to a
\* handshake; an ended session processes no message and sends nothing.
StepRank(step) == IF step = "handshake" THEN 0 ELSE IF step = "query" THEN 1 ELSE 2

C11_StepsOnlyForward ==
  [][/\ \A sid \in 1 .. Len(sessions) :
          StepRank(sessions'[sid].step) >= StepRank(sessions[sid].step)
     /\ \A i \in 1 .. Len(outbox') :
          outbox'[i].step = "query" =>
            \E j \in 1 .. i - 1 : outbox'[j].sid = outbox'[i].sid /\ outbox'[j].step = "handshake"
     /\ last'.before.step = "ended" =>
          /\ last'.sent = <<>> /\ last'.emitted = <<>>
          /\ last'.payload = NotOpened]_vars

\* C12: one session per remote DID.  A message from a DID with a cached
\* session is handled by that session; a message from a DID without one is
\* handled by a new session of that DID at the handshake step; the cache
\* holds, per DID, at most a session of that DID that has not ended; and once
\* an operation has ended a session the cache holds no entry for its DID.
C12_OneSessionPerDID ==
  [][/\ last'.op = "message" =>
          IF sessionsCache[last'.before.remoteDID] # NoSession
          THEN last'.before = sessions[sessionsCache[last'.before.remoteDID]]
          ELSE /\ last'.before.sid = Len(sessions) + 1
               /\ last'.before.step = "handshake"
               /\ last'.before.nonce = challenge
     /\ \A d \in RemoteDIDs :
          sessionsCache'[d] # NoSession =>
            /\ sessionsCache'[d] \in 1 .. Len(sessions')
            /\ sessions'[sessionsCache'[d]].remoteDID = d
            /\ sessions'[sessionsCache'[d]].step # "ended"
     /\ \A sid \in 1 .. Len(sessions) :
          (sessions[sid].step # "ended" /\ sessions'[sid].step = "ended") =>
            sessionsCache'[sessions[sid].remoteDID] = NoSession
     /\ (last'.op = "message" /\ last'.exit) =>
          sessionsCache'[last'.before.remoteDID] = NoSession]_vars

\* Both remote parties have a cached session, and the last message was
\* handled by the cached session of its sender.
C12_Witness ==
  /\ \A d \in RemoteDIDs : sessionsCache[d] # NoSession
  /\ sessionsCache["did:key:A"] # sessionsCache["did:key:B"]
  /\ last.op = "message" /\ last.before.step = "query"
  /\ sessionsCache[last.before.remoteDID] = last.before.sid

\* C13: a session waiting for the decision does not block the others.  An
\* operation on the session of one remote DID leaves the sessions, the cache
\* entry and the pending events of every other DID as they were; a decision
\* answers only on its own session, to its own DID, under its own cipher.
OfDID(seq, d, field) == [i \in {j \in 1 .. Len(seq) : seq[j][field] = d} |-> seq[i]]

ObtainedTickets(queries) ==
  UNION {IF q.query = "account" THEN Elements(provideAuthority(q))
         ELSE {lookupFileSystemTicket(q.path, q.did)} \ {NullTicket} : q \in Elements(queries)}

IsDelegationOf(t, original, remoteIdentifierDID) ==
  /\ t.audience = remoteIdentifierDID
  /\ t.issuer = IdentifierDID
  /\ t.proofs = <<cid(original)>>

ApprovalSent == last.op = "approve" /\ Len(last.sent) = 1

C14_FreshDelegations ==
  ApprovalSent =>
    LET body == last.sent[1].payload.body
        remote == pending[last.idx].identifier
        obtained == ObtainedTickets(last.arg)
        carried == Elements(body.accountTickets) \cup Elements(body.fileSystemTickets)
    IN  /\ \A o \in obtained : \E t \in carried : IsDelegationOf(t, o, remote)
        /\ \A t \in carried :
             t \in obtained \/ \E o \in obtained : IsDelegationOf(t, o, remote)

C14_Witness ==
  /\ ApprovalSent
  /\ Len(last.sent[1].payload.body.accountTickets) > 0
  /\ Len(last.sent[1].payload.body.fileSystemTickets) > 0
  /\ pending[last.idx].identifier = RemoteIdentifier

----------------------------------------------------------------------------
\* C15: an approve that succeeds sends one encrypted query-step message with
\* the approval payload, then emits the authorised event, then the session is
\* moved to ended; the authorised event is never emitted by an approve that
\* did not send the message.
C15_ApproveSendsEmitsEnds ==
  /\ (last.op = "approve" /\ last.kind = "return") =>
       /\ Len(last.sent) = 1
       /\ last.sent[1] = sendMessage(last.before, "query",
                           encryptJSONPayload(pending[last.idx].cipher,
                             approvalPayload(last.arg, pending[last.idx].identifier)))
       /\ last.emitted = <<"provide:authorised", "provide:authorized">>
       /\ last.trace = <<"sendMessage", "emit", "emit", "ended">>
       /\ last.before.step = "query"
       /\ sessions[last.before.sid].step = "ended"
  /\ (last.op = "approve" /\ Len(last.emitted) > 0) => Len(last.sent) = 1

----------------------------------------------------------------------------
\* C16: a dismiss sends one encrypted query-step message whose payload is
\* exactly {dismissed: true}, then emits the dismissed event, then the session
\* goes to ended.
C16_DismissSendsEmitsEnds ==
  last.op = "dismiss" =>
    /\ Len(last.sent) = 1
    /\ last.sent[1] = sendMessage(last.before, "query",
                        encryptJSONPayload(pending[last.idx].cipher,
                                           [type |-> "object", dismissed |-> TRUE]))
    /\ DOMAIN last.sent[1].payload.body = {"type", "dismissed"}
    /\ last.emitted = <<"provide:dismissed">>
    /\ last.trace = <<"sendMessage", "emit", "ended">>
    /\ last.before.step = "query"
    /\ sessions[last.before.sid].step = "ended"

----------------------------------------------------------------------------
\* The last operation on the Cabinet was an approval of one file-system query
\* for which the Cabinet holds a ticket on a prefix of the path.
JustApproved == Len(journal) > 0 /\ journal[Len(journal)].op = "approveQueries"
ApprovedQuery == journal[Len(journal)].items[1]
HeldTicket == lookupFileSystemTicket(ApprovedQuery.path, ApprovedQuery.did)
ApprovedUnderHeldPrefix == JustApproved /\ HeldTicket # NullTicket
GrantedTickets == journal[Len(journal)].payload.fileSystemTickets
Leaves(tickets) == {i \in 1 .. Len(tickets) : tickets[i].audience = RemoteIdentifier}

\* C17 as stated: an approved file-system query under a held prefix ticket
\* yields exactly one file-system ticket bundle, and the root issuer of its
\* chain is the Producer's own DID.
C17_Original ==
  ApprovedUnderHeldPrefix =>
    /\ Cardinality(Leaves(GrantedTickets)) = 1
    /\ rootIssuer(GrantedTickets[1], ProofDictionary) = IdentifierDID

\* C17: an approved file-system query under a held prefix ticket yields
\* exactly one file-system ticket bundle: one fresh delegation issued by the
\* Producer's own DID to the remote identifier for the held resource, and
\* after it every ticket of the held ticket's proof chain, each once; the
\* root issuer of the chain is the root issuer of the held ticket, which is
\* the Producer's own DID when the held ticket's chain starts at the Producer.
C17_OneBundleRootedAtHeldTicket ==
  ApprovedUnderHeldPrefix =>
    LET leaf == GrantedTickets[1]
    IN  /\ Len(GrantedTickets) >= 2
        /\ Leaves(GrantedTickets) = {1}
        /\ leaf.issuer = IdentifierDID
        /\ leaf.resource = HeldTicket.resource
        /\ IsPrefix(leaf.resource.path, ApprovedQuery.path)
        /\ GrantedTickets[2] = HeldTicket
        /\ \A i \in 1 .. Len(GrantedTickets) - 1 :
             /\ Len(GrantedTickets[i].proofs) = 1
             /\ GrantedTickets[i].proofs[1] = cid(GrantedTickets[i + 1])
        /\ Len(GrantedTickets[Len(GrantedTickets)].proofs) = 0
        /\ \A i, j \in 1 .. Len(GrantedTickets) : GrantedTickets[i] = GrantedTickets[j] => i = j
        /\ rootIssuer(leaf, ProofDictionary) = rootIssuer(HeldTicket, ProofDictionary)
        /\ rootIssuer(HeldTicket, ProofDictionary) = IdentifierDID => rootIssuer(leaf, ProofDictionary) = IdentifierDID

C17_Witness ==
  /\ ApprovedUnderHeldPrefix
  /\ ApprovedQuery.path = PrivateApps
  /\ HeldTicket = OriginTicket
  /\ rootIssuer(GrantedTickets[1], ProofDictionary) = IdentifierDID
  /\ Len(GrantedTickets) = 2

----------------------------------------------------------------------------
\* The last two operations on the Cabinet were two add calls in flight at
\* once: the second was waiting when the first did its read-merge-write.
TwoAddsAtOnce ==
  /\ Len(journal) >= 2
  /\ journal[Len(journal) - 1].op = "add"
  /\ journal[Len(journal)].op = "add"
  /\ journal[Len(journal) - 1].waiting >= 1
Elems(seq) == {seq[i] : i \in DOMAIN seq}
ItemKey(item) == toCollection(item)[1].key
ItemKeys(items) == {ItemKey(items[i]) : i \in DOMAIN items}
LastWritten(items, key) ==
  items[CHOOSE i \in DOMAIN items :
          /\ ItemKey(items[i]) = key
          /\ \A j \in DOMAIN items : ItemKey(items[j]) = key => j <= i]

\* C18 as stated: after two add calls with item lists X and Y in flight at
\* once on a collection C, the collection in memory and the persisted one
\* contain every item of C, X and Y.
C18_Original ==
  TwoAddsAtOnce =>
    LET C == journal[Len(journal) - 1].base
        X == journal[Len(journal) - 1].items
        Y == journal[Len(journal)].items
    IN  \A item \in CollectionItems(C) \cup Elems(X) \cup Elems(Y) :
          /\ item \in CollectionItems(collection)
          /\ encodeItem(item) \in CollectionItems(storage)

\* C18: after two add calls with item lists X and Y in flight at once on a
\* collection C, the collection in memory has exactly the keys of C, X and Y,
\* under each key the item written last (by Y, else by X, else the one of C),
\* so that an item is missing only when a later item was written under its
\* key; the persisted collection is the encoding of the one in memory.
C18_NoKeyLost ==
  TwoAddsAtOnce =>
    LET C == journal[Len(journal) - 1].base
        X == journal[Len(journal) - 1].items
        Y == journal[Len(journal)].items
    IN  /\ Keys(collection) = Keys(C) \cup ItemKeys(X) \cup ItemKeys(Y)
        /\ \A i, j \in DOMAIN collection : collection[i].key = collection[j].key => i = j
        /\ \A k \in Keys(collection) :
             Get(collection, k) = IF k \in ItemKeys(Y) THEN LastWritten(Y, k)
                                  ELSE IF k \in ItemKeys(X) THEN LastWritten(X, k)
                                  ELSE Get(C, k)
        /\ Len(storage) = Len(collection)
        /\ \A i \in DOMAIN collection :
             storage[i] = Entry(collection[i].key, encodeItem(collection[i].item))

C18_Witness ==
  /\ TwoAddsAtOnce
  /\ Len(journal[Len(journal) - 1].base) > 0
  /\ journal[Len(journal) - 1].items = <<UcanItem(OriginTicket), UcanItem(AppsTicket)>>
  /\ journal[Len(journal)].items = <<AccessKeyItem(RotatedKey)>>
  /\ Len(collection) = 3
  /\ AccessKeyItem(PrivateKey) \notin CollectionItems(collection)

----------------------------------------------------------------------------
\* The last two operations on the Cabinet were add calls with the same items.
AddedTwice ==
  /\ Len(journal) >= 2
  /\ journal[Len(journal) - 1].op = "add"
  /\ journal[Len(journal)].op = "add"
  /\ journal[Len(journal)].items = journal[Len(journal) - 1].items
NoDuplicate(seq) == \A i, j \in DOMAIN seq : seq[i] = seq[j] => i = j
NoDuplicateKey(col) == \A i, j \in DOMAIN col : col[i].key = col[j].key => i = j

\* C19: add(items) followed by add(items) leaves the collection, its
\* persisted form and the derived indexes as add(items) once left them, and
\* no index holds two entries for one content hash or one path.
C19_AddIdempotent ==
  AddedTwice =>
    /\ collection = journal[Len(journal) - 1].result
    /\ storage = toJSON(journal[Len(journal) - 1].result)
    /\ indexes = journal[Len(journal) - 1].indexes
    /\ NoDuplicateKey(collection)
    /\ \A i, j \in DOMAIN indexes.accessKeys :
         indexes.accessKeys[i].path = indexes.accessKeys[j].path => i = j
    /\ NoDuplicateKey(indexes.ucansIndexedByCID)
    /\ NoDuplicate([i \in DOMAIN indexes.ucansIndexedByCID |->
                      indexes.ucansIndexedByCID[i].item])
    /\ NoDuplicateKey(indexes.ucansIndexedByAudience)
    /\ \A i \in DOMAIN indexes.ucansIndexedByAudience :
         NoDuplicate(indexes.ucansIndexedByAudience[i].item)

C19_Witness ==
  /\ AddedTwice
  /\ journal[Len(journal)].items = <<UcanItem(OriginTicket), UcanItem(AppsTicket)>>
  /\ Len(journal[Len(journal) - 1].base) = 1
  /\ Len(collection) = 3
  /\ Len(audienceUcans(IdentifierDID)) = 2
  /\ hasAccessKey(PrivateRoot)

----------------------------------------------------------------------------
\* The collections the Cabinet has had or been given so far: the collection
\* before and after every operation, and the collection of every item added.
Merged ==
  {collection}
    \cup {journal[i].base : i \in DOMAIN journal}
    \cup {journal[i].result : i \in DOMAIN journal}
    \cup UNION {{toCollection(journal[i].items[n]) : n \in DOMAIN journal[i].items} :
                 i \in {j \in DOMAIN journal : journal[j].op = "add"}}
Overwrites(a, b) == \E k \in Keys(a) \cap Keys(b) : Get(a, k) # Get(b, k)

\* C20: merging two collections is a last-write-wins union on the key: the
\* keys of the result are those of both, each once; a key of the second
\* collection has the second collection's item, every other key the first's.
C20_MergeLastWriteWins ==
  \A a \in Merged : \A b \in Merged :
    LET m == mergeCollections(a, b)
    IN  /\ Keys(m) = Keys(a) \cup Keys(b)
        /\ NoDuplicateKey(m)
        /\ \A k \in Keys(b) : Get(m, k) = Get(b, k)
        /\ \A k \in Keys(a) \ Keys(b) : Get(m, k) = Get(a, k)

C20_Witness ==
  /\ \E a \in Merged : \E b \in Merged : Overwrites(a, b) /\ Keys(a) \ Keys(b) # {}
  /\ \E a \in Merged : \E b \in Merged : Overwrites(a, b) /\ Keys(b) \ Keys(a) # {}
  /\ Len(journal) > 0
  /\ journal[Len(journal)].op = "add"
  /\ Overwrites(journal[Len(journal)].base, collection)

----------------------------------------------------------------------------
\* The entries of the collection that hold a ticket, and those that hold an
\* access key.
UcanEntries == {i \in DOMAIN collection : collection[i].item.type = "ucan"}
AccessKeyEntries == {i \in DOMAIN collection : collection[i].item.type = "access-key"}
Occurrences(seq, x) == Cardinality({i \in DOMAIN seq : seq[i] = x})
Paths == {PrivateRoot, PrivateApps}

\* C21: after any add and clear operations the indexes are a function of the
\* collection: accessKeys lists exactly the access-key items,
\* ucansIndexedByCID maps exactly the ticket items under their key,
\* ucansIndexedByAudience holds every ticket item once under its audience,
\* no index entry is without a collection item, and hasAccessKey agrees with
\* accessKeys.
C21_IndexesFollowCollection ==
  /\ Len(indexes.accessKeys) = Cardinality(AccessKeyEntries)
  /\ \A i \in AccessKeyEntries :
       Occurrences(indexes.accessKeys,
                   [path |-> collection[i].item.path, key |-> collection[i].item.key]) = 1
  /\ Keys(indexes.ucansIndexedByCID) = {collection[i].key : i \in UcanEntries}
  /\ Len(indexes.ucansIndexedByCID) = Cardinality(UcanEntries)
  /\ \A i \in UcanEntries :
       Get(indexes.ucansIndexedByCID, collection[i].key) = collection[i].item.ucan
  /\ Keys(indexes.ucansIndexedByAudience) = {collection[i].item.ucan.audience : i \in UcanEntries}
  /\ NoDuplicateKey(indexes.ucansIndexedByAudience)
  /\ \A i \in UcanEntries :
       Occurrences(audienceUcans(collection[i].item.ucan.audience), collection[i].item.ucan) = 1
  /\ \A n \in DOMAIN indexes.ucansIndexedByAudience :
       \A m \in DOMAIN indexes.ucansIndexedByAudience[n].item :
         \E i \in UcanEntries :
           /\ collection[i].item.ucan = indexes.ucansIndexedByAudience[n].item[m]
           /\ collection[i].item.ucan.audience = indexes.ucansIndexedByAudience[n].key
  /\ \A path \in Paths :
       hasAccessKey(path) <=> \E n \in DOMAIN indexes.accessKeys : indexes.accessKeys[n].path = path

C21_Witness ==
  /\ Len(journal) = 2
  /\ journal[1].op = "clear" /\ Len(journal[1].base) > 0
  /\ journal[2].op = "add"
  /\ Len(audienceUcans(IdentifierDID)) = 2
  /\ Len(indexes.ucansIndexedByCID) = 2
  /\ indexes.accessKeys = <<>>
  /\ ~hasAccessKey(PrivateRoot)

----------------------------------------------------------------------------
\* The messages sent in answer to a provide:query event: those of its session
\* at the query step under the cipher made for the event.
Responses(i) ==
  {k \in DOMAIN outbox :
     /\ outbox[k].sid = pending[i].sid
     /\ outbox[k].step = "query"
     /\ outbox[k].payload.key = pending[i].cipher.key
     /\ outbox[k].payload.nonce = pending[i].cipher.nonce}

\* C29: whatever approve and dismiss calls are made on the continuations of
\* a provide:query event, at most one message answers it, so no two messages
\* are encrypted with the cipher and nonce of the event.
C29_AtMostOneResponse == \A i \in DOMAIN pending : Cardinality(Responses(i)) <= 1

\* C30: a session that is taken out of the cache has ended: under any
\* interleaving of handlers for one remote DID, a cached session that has
\* not ended stays cached.
C30_LiveSessionStaysCached ==
  [][\A d \in RemoteDIDs :
       (sessionsCache[d] # NoSession /\ sessionsCache'[d] # sessionsCache[d])
         => ended(sessions'[sessionsCache[d]])]_vars

----------------------------------------------------------------------------
\* The queries an approval payload lists as approved.
ListedApproved(body) == Map(QueryFromJSON, body.approved)

\* C31: every query listed as approved in an approval payload was requested
\* by the Consumer in that session, and for each listed file-system query
\* the payload carries a ticket for the remote identifier whose resource is
\* that file system at a prefix of the path.
C31_ApprovedIsBacked ==
  ApprovalSent =>
    LET body == last.sent[1].payload.body
        remote == pending[last.idx].identifier
    IN  \A q \in Elements(ListedApproved(body)) :
          /\ q \in Elements(pending[last.idx].queries)
          /\ q.query = "fileSystem" =>
               \E t \in Elements(body.fileSystemTickets) :
                 /\ t.audience = remote
                 /\ t.resource.category = "file_system"
                 /\ t.resource.did = q.did
                 /\ IsPrefix(t.resource.path, q.path)

----------------------------------------------------------------------------
(* Library functions *)

\* The state of a Producer that has received nothing.
Quiet ==
  /\ challenge = ChallengeBytes
  /\ remotes = {"did:key:A"}
  /\ request = OfferedQueries
  /\ sessions = <<>>
  /\ sessionsCache = [d \in RemoteDIDs |-> NoSession]
  /\ pending = <<>>
  /\ outbox = <<>>
  /\ accepted = EmptyBag
  /\ calls = 0
  /\ last = Effects("provide", NoSessionRecord, "", NotOpened, "return", FALSE, <<>>, <<>>, <<>>, 0, <<>>)

\* The queries isContained is applied to: both variants, two DIDs, scopes
\* with and without the wildcard, both partitions, paths of three depths and
\* both access modes.
OtherDID == "did:key:other"
PrivateNotes == <<"private", "Apps", "Notes">>
PublicRoot == <<"public">>
Scopes == {Wildcard, {"read"}, {"read", "write"}}
QueryUniverse ==
  {Query("account", d, <<>>, s, "") : d \in {FileSystemDID, OtherDID}, s \in Scopes}
    \cup {Query("fileSystem", d, p, {}, m) :
            d \in {FileSystemDID, OtherDID},
            p \in {PrivateRoot, PrivateApps, PrivateNotes, PublicRoot},
            m \in {"read", "write"}}
ContainmentInputs ==
  {Asked("isContained", <<a, b, c>>) : a \in QueryUniverse, b \in QueryUniverse, c \in QueryUniverse}

\* isContained applied to every pair of three queries: result[i][j] is
\* isContained({ parent: args[i], child: args[j] }).
contained ==
  /\ applied.fn = "isContained"
  /\ ~applied.returned
  /\ applied' = Answered(applied,
                  [i \in 1 .. 3 |-> [j \in 1 .. 3 |-> isContained(applied.args[i], applied.args[j])]])
  /\ UNCHANGED providerVars
  /\ UNCHANGED cabinetVars
  /\ UNCHANGED fileSystemVars
  /\ UNCHANGED depotVars

\* C22: isContained is a preorder on queries: every query contains itself,
\* containment of B in A and of C in B gives containment of C in A, and a
\* query of one variant never contains a query of the other.
C22_ContainmentPreorder ==
  (applied.fn = "isContained" /\ applied.returned) =>
    /\ \A i \in 1 .. 3 : applied.result[i][i]
    /\ (applied.result[1][2] /\ applied.result[2][3]) => applied.result[1][3]
    /\ \A i, j \in 1 .. 3 :
         applied.args[i].query # applied.args[j].query => ~applied.result[i][j]

C22_Witness ==
  /\ applied.fn = "isContained" /\ applied.returned
  /\ applied.args = <<Query("fileSystem", FileSystemDID, PrivateRoot, {}, "write"),
                      Query("fileSystem", FileSystemDID, PrivateApps, {}, "write"),
                      Query("fileSystem", FileSystemDID, PrivateNotes, {}, "read")>>
  /\ applied.result[1][2] /\ applied.result[2][3] /\ applied.result[1][3]
  /\ ~applied.result[3][1] /\ ~applied.result[2][1]

\* A delegation chain root, mid, leaf, the root declaring the username; and
\* tickets of engineered chains: one whose proof reference is resolved to the
\* ticket itself, two that are each other's proof, and one with two proofs.
MidDID == "did:key:mid"
ChainRoot ==
  WithFacts(Ticket(RootDID, MidDID, FileSystemResource(FileSystemDID, PrivateRoot), <<>>),
            <<Entry("username", "alice")>>)
ChainMid == Ticket(MidDID, IdentifierDID, FileSystemResource(FileSystemDID, PrivateRoot), <<cid(ChainRoot)>>)
ChainLeaf ==
  Ticket(IdentifierDID, RemoteIdentifier, FileSystemResource(FileSystemDID, PrivateApps), <<cid(ChainMid)>>)
SelfLeaf ==
  Ticket(IdentifierDID, RemoteIdentifier, FileSystemResource(FileSystemDID, PrivateApps), <<"cid:self">>)
LoopMid == Ticket(MidDID, IdentifierDID, FileSystemResource(FileSystemDID, PrivateRoot), <<"cid:leaf">>)
LoopLeaf ==
  Ticket(IdentifierDID, RemoteIdentifier, FileSystemResource(FileSystemDID, PrivateNotes), <<cid(LoopMid)>>)
ForkLeaf ==
  Ticket(IdentifierDID, RemoteIdentifier, FileSystemResource(FileSystemDID, PrivateRoot),
         <<cid(ChainMid), cid(LoopMid)>>)
ChainTickets == {ChainRoot, ChainMid, ChainLeaf, SelfLeaf, LoopMid, LoopLeaf, ForkLeaf}

\* What a proof resolver may answer: the entries it holds, any of them missing.
ResolverEntries ==
  <<Entry(cid(ChainRoot), ChainRoot), Entry(cid(ChainMid), ChainMid), Entry("cid:self", SelfLeaf),
    Entry(cid(LoopMid), LoopMid), Entry("cid:leaf", LoopLeaf)>>
RECURSIVE Picked(_, _)
Picked(entries, indices) ==
  IF Len(entries) = 0 THEN <<>>
  ELSE Picked(SubSeq(entries, 1, Len(entries) - 1), indices)
         \o (IF Len(entries) \in indices THEN <<entries[Len(entries)]>> ELSE <<>>)
Dictionaries == {Picked(ResolverEntries, S) : S \in SUBSET (1 .. Len(ResolverEntries))}
BundleInputs == {Asked("bundleTickets", <<t, d>>) : t \in ChainTickets, d \in Dictionaries}

\* bundleTickets(ticket, proofResolver)
bundled ==
  /\ applied.fn = "bundleTickets"
  /\ ~applied.returned
  /\ applied' = Answered(applied, bundleTickets(applied.args[1], applied.args[2]))
  /\ UNCHANGED providerVars
  /\ UNCHANGED cabinetVars
  /\ UNCHANGED fileSystemVars
  /\ UNCHANGED depotVars

\* The tickets a dictionary resolves the proofs of a set of tickets to, and
\* every ticket reached from a ticket by its proofs.
Parents(ts, dictionary) ==
  {Get(dictionary, p) : p \in {q \in UNION {Elements(t.proofs) : t \in ts} : q \in Keys(dictionary)}}
RECURSIVE Closure(_, _, _)
Closure(ts, dictionary, n) ==
  IF n = 0 THEN ts ELSE Closure(ts \cup Parents(ts, dictionary), dictionary, n - 1)
Ancestors(t, dictionary) == Closure(Parents({t}, dictionary), dictionary, Len(dictionary))
Resolvable(t, dictionary) ==
  \A u \in {t} \cup Ancestors(t, dictionary) : Elements(u.proofs) \subseteq Keys(dictionary)
Cyclic(t, dictionary) ==
  \E u \in {t} \cup Ancestors(t, dictionary) : cid(u) \in {cid(a) : a \in Ancestors(u, dictionary)}

\* C23: for a chain whose proofs all resolve and that has no cycle,
\* bundleTickets returns the leaf and every ancestor, nothing else, and no
\* ticket twice; for the chain leaf, mid, root that is exactly the three.
C23_BundleIsTheChain ==
  (/\ applied.fn = "bundleTickets" /\ applied.returned
   /\ Resolvable(applied.args[1], applied.args[2])
   /\ ~Cyclic(applied.args[1], applied.args[2])) =>
    /\ applied.result.error = "none"
    /\ Elements(applied.result.tickets)
         = {applied.args[1]} \cup Ancestors(applied.args[1], applied.args[2])
    /\ NoDuplicate(applied.result.tickets)
    /\ applied.args[1] = ChainLeaf => Elements(applied.result.tickets) = {ChainLeaf, ChainMid, ChainRoot}

C23_Witness ==
  /\ applied.fn = "bundleTickets" /\ applied.returned
  /\ applied.args[1] = ChainLeaf
  /\ applied.args[2] = ResolverEntries
  /\ applied.result = Bundled(<<ChainLeaf, ChainMid, ChainRoot>>)

\* C24: bundleTickets returns for every ticket and resolver; when the chain
\* has a cycle and every proof on it resolves it reports CyclicProofChain and
\* returns no tickets, and it reports CyclicProofChain for no other chain.
C24_CycleReported ==
  (applied.fn = "bundleTickets" /\ applied.returned) =>
    /\ applied.result.error \in {"none", "CyclicProofChain", "ResolverFault"}
    /\ (Cyclic(applied.args[1], applied.args[2]) /\ Resolvable(applied.args[1], applied.args[2]))
         => applied.result = Failed("CyclicProofChain")
    /\ applied.result.error = "CyclicProofChain" => Cyclic(applied.args[1], applied.args[2])
    /\ applied.result.error = "none" => NoDuplicate(Map(cid, applied.result.tickets))

C24_Witness ==
  /\ applied.fn = "bundleTickets" /\ applied.returned
  /\ applied.args[1] = SelfLeaf
  /\ applied.args[2] = ResolverEntries
  /\ applied.result.error = "CyclicProofChain"

\* Chains root, mid, leaf in which every link declares some facts or none.
FactLists ==
  {<<>>, <<Entry("username", "alice")>>, <<Entry("username", "bob")>>,
   <<Entry("plan", "free")>>, <<Entry("username", "bob"), Entry("plan", "pro")>>}
FactsRoot(facts) ==
  WithFacts(Ticket(RootDID, MidDID, FileSystemResource(FileSystemDID, PrivateRoot), <<>>), facts)
FactsMid(root, facts) ==
  WithFacts(Ticket(MidDID, IdentifierDID, FileSystemResource(FileSystemDID, PrivateRoot), <<cid(root)>>),
            facts)
FactsLeaf(mid, facts) ==
  WithFacts(Ticket(IdentifierDID, RemoteIdentifier, FileSystemResource(FileSystemDID, PrivateApps),
                   <<cid(mid)>>), facts)
FactsInput(atRoot, atMid, atLeaf) ==
  LET root == FactsRoot(atRoot)
      mid == FactsMid(root, atMid)
      leaf == FactsLeaf(mid, atLeaf)
  IN  Asked("listFacts", <<leaf, <<Entry(cid(root), root), Entry(cid(mid), mid)>>>>)
FactsInputs == {FactsInput(r, m, l) : r \in FactLists, m \in FactLists, l \in FactLists}

\* listFacts(ucan, ucanDictionary)
factsListed ==
  /\ applied.fn = "listFacts"
  /\ ~applied.returned
  /\ applied' = Answered(applied, listFacts(applied.args[1], applied.args[2]))
  /\ UNCHANGED providerVars
  /\ UNCHANGED cabinetVars
  /\ UNCHANGED fileSystemVars
  /\ UNCHANGED depotVars

\* The links of the chain of a ticket, the ticket first.
RECURSIVE Links(_, _)
Links(t, dictionary) ==
  IF Len(t.proofs) = 0 \/ t.proofs[1] \notin Keys(dictionary) THEN <<t>>
  ELSE <<t>> \o Links(Get(dictionary, t.proofs[1]), dictionary)
Declaring(links, key) == {i \in DOMAIN links : key \in Keys(links[i].facts)}
Nearest(links, key) == CHOOSE i \in Declaring(links, key) : \A j \in Declaring(links, key) : i <= j

\* C25: listFacts returns every key some link of the chain declares, each
\* once, with the value of the declaring link nearest the leaf; a username
\* declared at the root alone is returned for the leaf.
C25_FactsOfEveryLink ==
  (applied.fn = "listFacts" /\ applied.returned) =>
    LET links == Links(applied.args[1], applied.args[2])
    IN  /\ Keys(applied.result) = UNION {Keys(links[i].facts) : i \in DOMAIN links}
        /\ NoDuplicateKey(applied.result)
        /\ \A key \in Keys(applied.result) :
             Get(applied.result, key) = Get(links[Nearest(links, key)].facts, key)
        /\ (/\ links[1].facts = <<>> /\ links[2].facts = <<>>
            /\ links[3].facts = <<Entry("username", "alice")>>)
             => applied.result = <<Entry("username", "alice")>>

C25_Witness ==
  /\ applied.fn = "listFacts" /\ applied.returned
  /\ Len(Links(applied.args[1], applied.args[2])) = 3
  /\ applied.args[1].facts = <<Entry("username", "bob"), Entry("plan", "pro")>>
  /\ Get(applied.args[2], applied.args[1].proofs[1]).facts = <<Entry("plan", "free")>>
  /\ Links(applied.args[1], applied.args[2])[3].facts = <<Entry("username", "alice")>>
  /\ Get(applied.result, "username") = "bob"
  /\ Get(applied.result, "plan") = "pro"

\* The Cabinets lookupFileSystemTicket searches: any of six tickets held,
\* for two file systems, both partitions and paths of two depths, two of
\* them for the same path.
OtherTicket == Ticket(RootDID, IdentifierDID, FileSystemResource(OtherDID, PrivateNotes), <<>>)
PublicTicket == Ticket(RootDID, IdentifierDID, FileSystemResource(FileSystemDID, PublicRoot), <<>>)
HeldItems ==
  <<UcanItem(RootTicket), UcanItem(OriginTicket), UcanItem(AppsTicket), UcanItem(OtherTicket),
    UcanItem(PublicTicket), UcanItem(AccountTicket)>>
Cabinets == {added(emptyCollection, Picked(HeldItems, S)) : S \in SUBSET (1 .. Len(HeldItems))}
LookupInputs ==
  {Asked("lookupFileSystemTicket", <<path, did>>) :
     path \in {PrivateRoot, PrivateApps, PrivateNotes, PublicRoot}, did \in {FileSystemDID, OtherDID}}

\* inventory.lookupFileSystemTicket(path, did)
lookedUp ==
  /\ applied.fn = "lookupFileSystemTicket"
  /\ ~applied.returned
  /\ applied' = Answered(applied, lookupFileSystemTicket(applied.args[1], applied.args[2]))
  /\ UNCHANGED providerVars
  /\ UNCHANGED cabinetVars
  /\ UNCHANGED fileSystemVars
  /\ UNCHANGED depotVars

\* The Cabinet tickets for a file system that authorize a path.
Authorizing(path, did) ==
  {collection[i].item.ucan :
     i \in {j \in UcanEntries :
              /\ collection[j].item.ucan.resource.category = "file_system"
              /\ collection[j].item.ucan.resource.did = did
              /\ IsPrefix(collection[j].item.ucan.resource.path, path)}}

\* C26: lookupFileSystemTicket returns a Cabinet ticket for the file system
\* did whose path is a prefix of the path asked for and no shorter than that
\* of any other such ticket; when the Cabinet holds no such ticket it returns
\* null.
C26_LongestPrefixOrNull ==
  (applied.fn = "lookupFileSystemTicket" /\ applied.returned) =>
    LET candidates == Authorizing(applied.args[1], applied.args[2])
    IN  /\ candidates = {} <=> applied.result = NullTicket
        /\ candidates # {} =>
             /\ applied.result \in candidates
             /\ \A t \in candidates :
                  Len(t.resource.path) <= Len(applied.result.resource.path)

C26_Witness ==
  /\ applied.fn = "lookupFileSystemTicket" /\ applied.returned
  /\ applied.args = <<PrivateNotes, FileSystemDID>>
  /\ {RootTicket, AppsTicket, OtherTicket} \subseteq CabinetTickets
  /\ applied.result = AppsTicket

\* The ticket lists collectUnique is given: bundles of the chain leaf, mid,
\* root put one after another, up to four tickets.
MaxTickets == 4
TicketLists == SeqsUpTo({ChainLeaf, ChainMid, ChainRoot}, MaxTickets)
UniqueInputs == {Asked("collectUnique", <<ts>>) : ts \in TicketLists}

\* Tickets.collectUnique(bundles.flat()), and collectUnique of its result.
collected ==
  /\ applied.fn = "collectUnique"
  /\ ~applied.returned
  /\ \E unique \in {collectUnique(applied.args[1])} :
       applied' = Answered(applied, [once |-> unique, twice |-> collectUnique(unique)])
  /\ UNCHANGED providerVars
  /\ UNCHANGED cabinetVars
  /\ UNCHANGED fileSystemVars
  /\ UNCHANGED depotVars

FirstOccurrence(ts, hash) == CHOOSE i \in DOMAIN ts : cid(ts[i]) = hash /\ \A j \in 1 .. i - 1 : cid(ts[j]) # hash

\* C27: collectUnique returns every content hash of its input once, each
\* with the ticket of its first occurrence and in the order of the first
\* occurrences, and collectUnique of the result is the result.
C27_UniqueInFirstSeenOrder ==
  (applied.fn = "collectUnique" /\ applied.returned) =>
    LET input == applied.args[1]
        output == applied.result.once
    IN  /\ {cid(output[i]) : i \in DOMAIN output} = {cid(input[i]) : i \in DOMAIN input}
        /\ NoDuplicate(Map(cid, output))
        /\ \A i \in DOMAIN output : output[i] = input[FirstOccurrence(input, cid(output[i]))]
        /\ \A i, j \in DOMAIN output :
             i < j => FirstOccurrence(input, cid(output[i])) < FirstOccurrence(input, cid(output[j]))
        /\ applied.result.twice = output

C27_Witness ==
  /\ applied.fn = "collectUnique" /\ applied.returned
  /\ applied.args[1] = <<ChainLeaf, ChainMid, ChainLeaf, ChainRoot>>
  /\ applied.result.once = <<ChainLeaf, ChainMid, ChainRoot>>
  /\ applied.result.twice = <<ChainLeaf, ChainMid, ChainRoot>>

\* The CID log of a file system: the data roots in the order they were
\* added. Positions are counted from 0 and indexOf is -1 for a CID that is
\* not in the log; newest is undefined (NoCID) for an empty log.
NoCID == "none"
CIDs == {"cid:a", "cid:b", "cid:c"}
MaxLog == 3
CIDLog_length(log) == Len(log)
CIDLog_newest(log) == IF Len(log) = 0 THEN NoCID ELSE log[Len(log)]
CIDLog_indexOf(log, item) ==
  IF \E i \in DOMAIN log : log[i] = item
  THEN (CHOOSE i \in DOMAIN log :
          log[i] = item /\ \A j \in DOMAIN log : log[j] = item => i <= j) - 1
  ELSE -1
CIDLog_add(log, items) == log \o items

\* loadExisting up to the choice of the CID to load: the carrier's data
\* root (NoCID when it has none) against the log. The result is the CID handed
\* to FileSystem.fromCID and the log as it is then.
loadExisting(dataRoot, log) ==
  LET logIdx == IF dataRoot # NoCID THEN CIDLog_indexOf(log, dataRoot) ELSE -1
      loads(c, l) == [throws |-> FALSE, cid |-> c, cidLog |-> l]
  IN  IF dataRoot = NoCID
      THEN IF CIDLog_newest(log) # NoCID
           THEN loads(CIDLog_newest(log), log)
           ELSE [throws |-> TRUE, cid |-> NoCID, cidLog |-> log]
      ELSE IF logIdx = CIDLog_length(log) - 1
           THEN loads(dataRoot, log)
           ELSE IF logIdx # -1 /\ logIdx < CIDLog_length(log) - 1
                THEN loads(CIDLog_newest(log), log)
                ELSE loads(dataRoot, CIDLog_add(log, <<dataRoot>>))

LoadInputs ==
  {Asked("loadExisting", <<dataRoot, log>>) :
     dataRoot \in CIDs \cup {NoCID}, log \in SeqsUpTo(CIDs, MaxLog)}

loaded ==
  /\ applied.fn = "loadExisting"
  /\ ~applied.returned
  /\ applied' = Answered(applied, loadExisting(applied.args[1], applied.args[2]))
  /\ UNCHANGED providerVars
  /\ UNCHANGED cabinetVars
  /\ UNCHANGED fileSystemVars
  /\ UNCHANGED depotVars

LoadReturned == applied.fn = "loadExisting" /\ applied.returned

\* C34: without a carrier data root loadExisting loads the newest CID of the
\* log and fails when the log is empty; a carrier data root that is the last
\* entry of the log is loaded; one found earlier in the log makes it load the
\* newest entry; one absent from the log is appended to the log and loaded.
C34_LoadExistingCases ==
  LoadReturned =>
    LET dataRoot == applied.args[1]
        log == applied.args[2]
        result == applied.result
        loads(c, l) == ~result.throws /\ result.cid = c /\ result.cidLog = l
    IN  /\ (dataRoot = NoCID /\ log = <<>>) => result.throws
        /\ (dataRoot = NoCID /\ log # <<>>) => loads(log[Len(log)], log)
        /\ (dataRoot # NoCID /\ log # <<>> /\ log[Len(log)] = dataRoot) => loads(dataRoot, log)
        /\ (dataRoot # NoCID /\ dataRoot \in Elements(log) /\ log[Len(log)] # dataRoot)
             => loads(log[Len(log)], log)
        /\ (dataRoot # NoCID /\ dataRoot \notin Elements(log))
             => loads(dataRoot, Append(log, dataRoot))

\* C35: whenever loadExisting succeeds, the CID it loads is the newest entry
\* of the CID log at that moment.
C35_LoadsNewestOfLog ==
  (LoadReturned /\ ~applied.result.throws) =>
    /\ applied.result.cidLog # <<>>
    /\ applied.result.cid = applied.result.cidLog[Len(applied.result.cidLog)]

\* options.onCommit(changes) of the file system did: the paths of the
\* modifications are looked up one by one.
onCommit_anyProof(changes, did) ==
  LET proof(path) == lookupFileSystemTicket(path, did)
      proofs == Map(proof, changes)
  IN  [throws |-> FALSE, commit |-> \E i \in DOMAIN proofs : proofs[i] # NullTicket]

onCommit(changes, did) ==
  LET proof(path) == lookupFileSystemTicket(path, did)
      proofs == Map(proof, changes)
  IN  [throws |-> FALSE, commit |-> \A i \in DOMAIN proofs : proofs[i] # NullTicket]

MaxChanges == 2
CommitInputs ==
  {Asked("onCommit", <<changes, did>>) :
     changes \in SeqsUpTo({PrivateRoot, PrivateApps, PrivateNotes, PublicRoot}, MaxChanges),
     did \in {FileSystemDID, OtherDID}}

committed ==
  /\ applied.fn = "onCommit"
  /\ ~applied.returned
  /\ applied' = Answered(applied, onCommit(applied.args[1], applied.args[2]))
  /\ UNCHANGED providerVars
  /\ UNCHANGED cabinetVars
  /\ UNCHANGED fileSystemVars
  /\ UNCHANGED depotVars

\* C36: onCommit allows the commit exactly when the Cabinet holds, for every
\* modified path, a file-system ticket for the file system's DID at a prefix
\* of that path; otherwise it answers commit: false and does not throw.
C36_CommitNeedsEveryProof ==
  (applied.fn = "onCommit" /\ applied.returned) =>
    /\ ~applied.result.throws
    /\ applied.result.commit \in BOOLEAN
    /\ applied.result.commit <=>
         \A path \in Elements(applied.args[1]) : Authorizing(path, applied.args[2]) # {}

C36_Witness ==
  /\ applied.fn = "onCommit" /\ applied.returned
  /\ applied.args = <<(<<PrivateApps, PublicRoot>>), FileSystemDID>>
  /\ Authorizing(PrivateApps, FileSystemDID) # {}
  /\ Authorizing(PublicRoot, FileSystemDID) = {}
  /\ applied.result = [throws |-> FALSE, commit |-> FALSE]

\* The Cabinets and query lists of an approval: the tickets held, any of
\* three access keys (private root, private Apps, public root), and lists of
\* up to two queries over both variants, both partitions and two DIDs.
AppsKey == [did |-> FileSystemDID, path |-> PrivateApps, key |-> "key:apps"]
PublicKey == [did |-> FileSystemDID, path |-> PublicRoot, key |-> "key:public"]
TicketItems ==
  <<UcanItem(RootTicket), UcanItem(AppsTicket), UcanItem(AccountTicket), UcanItem(PublicTicket)>>
KeyItems == <<AccessKeyItem(PrivateKey), AccessKeyItem(AppsKey), AccessKeyItem(PublicKey)>>
KeyCabinets ==
  {added(emptyCollection, TicketItems \o Picked(KeyItems, S)) : S \in SUBSET (1 .. Len(KeyItems))}
ApprovedQueries ==
  {AccountQuery, FileSystemQuery(FileSystemDID, PrivateRoot), FileSystemQuery(FileSystemDID, PrivateApps),
   FileSystemQuery(FileSystemDID, PublicRoot), FileSystemQuery(OtherDID, PrivateRoot)}
ApprovalInputs ==
  {Asked("approveQueries", <<qs>>) :
     qs \in {<<>>} \cup {<<q>> : q \in ApprovedQueries}
              \cup {<<q, r>> : q \in ApprovedQueries, r \in ApprovedQueries}}

\* approveQueries(queries, remoteIdentifierDID, cipher) of a session at the
\* query step.
approvalBuilt ==
  /\ applied.fn = "approveQueries"
  /\ ~applied.returned
  /\ applied' = Answered(applied,
                  approveQueries(ProviderSession(1, "did:key:A"), applied.args[1], RemoteIdentifier,
                                 makeCipher(ChallengeBytes + QueryOffset, "did:key:A").cipher))
  /\ UNCHANGED providerVars
  /\ UNCHANGED cabinetVars
  /\ UNCHANGED fileSystemVars
  /\ UNCHANGED depotVars

\* The private file-system queries of a list for which the Cabinet holds an
\* access key, in their order.
Keyed(queries) ==
  SelectSeq(queries,
            LAMBDA q : /\ q.query = "fileSystem"
                       /\ Len(q.path) > 0 /\ q.path[1] = "private"
                       /\ \E a \in CabinetAccessKeys : a.did = q.did /\ IsPrefix(a.path, q.path))

\* C32: an approval of a non-empty list is sent whatever keys the Cabinet
\* holds, and its accessKeys are, in order, one key for every approved
\* private file-system query that has a matching key: a key of the Cabinet
\* for that file system at a prefix of the path, no other of which is more
\* specific. Account queries, public queries and private queries without a
\* key contribute none.
C32_AccessKeysOfPrivateQueries ==
  (applied.fn = "approveQueries" /\ applied.returned /\ Len(applied.args[1]) > 0) =>
    /\ ~applied.result.throws
    /\ Len(applied.result.sent) = 1
    /\ LET accessKeys == applied.result.sent[1].payload.body.accessKeys
           keyed == Keyed(applied.args[1])
       IN  /\ Len(accessKeys) = Len(keyed)
           /\ \A i \in DOMAIN accessKeys :
                /\ accessKeys[i] \in CabinetAccessKeys
                /\ accessKeys[i].did = keyed[i].did
                /\ IsPrefix(accessKeys[i].path, keyed[i].path)
                /\ \A a \in CabinetAccessKeys :
                     (a.did = keyed[i].did /\ IsPrefix(a.path, keyed[i].path))
                       => Len(a.path) <= Len(accessKeys[i].path)

C32_Witness ==
  /\ applied.fn = "approveQueries" /\ applied.returned
  /\ applied.args[1] = <<FileSystemQuery(FileSystemDID, PublicRoot), FileSystemQuery(FileSystemDID, PrivateApps)>>
  /\ CabinetAccessKeys = {PrivateKey, PublicKey}
  /\ applied.result.sent[1].payload.body.accessKeys = <<PrivateKey>>

InitFunctions ==
  /\ Quiet
  /\ Elsewhere
  /\ \/ /\ Stocked
        /\ applied \in ContainmentInputs \cup BundleInputs \cup FactsInputs \cup UniqueInputs
                         \cup LoadInputs
     \/ /\ collection \in Cabinets
        /\ storage = toJSON(collection)
        /\ indexes = collectionUpdateCallback(collection)
        /\ adding = <<>>
        /\ journal = <<>>
        /\ applied \in LookupInputs \cup CommitInputs
     \/ /\ collection \in KeyCabinets
        /\ storage = toJSON(collection)
        /\ indexes = collectionUpdateCallback(collection)
        /\ adding = <<>>
        /\ journal = <<>>
        /\ applied \in ApprovalInputs

NextFunctions ==
  \/ contained
  \/ bundled
  \/ factsListed
  \/ lookedUp
  \/ collected
  \/ approvalBuilt
  \/ loaded
  \/ committed

SpecFunctions == InitFunctions /\ [][NextFunctions]_vars

----------------------------------------------------------------------------
(* The file system: transactions and publishing *)

MaxTransactions == 2

PublicSite == <<"public", "Site">>
WritePaths == {PrivateNotes, PublicSite}

\* RootTree.store: the data root is the content hash of the root tree.
RootTree_store(tree) == [cid |-> tree]

\* The tickets that prove the changed paths, as the publish handler of
\* fileSystem.ts collects them: one per path that has one.
proofsFor(changedPaths) ==
  LET found(path) ==
        LET ticket == lookupFileSystemTicket(path, FileSystemDID)
        IN  IF ticket # NullTicket THEN <<ticket>> ELSE <<>>
  IN  Flat(Map(found, changedPaths))

NoStatus == [pending |-> TRUE]
statusNotPublishing == [persisted |-> FALSE, reason |-> "DISABLED_BY_OPTIONS"]
statusLocalOnly == [persisted |-> TRUE, localOnly |-> TRUE]
statusPublished == [persisted |-> TRUE, localOnly |-> FALSE]
statusFailed == [persisted |-> FALSE, reason |-> "DATA_ROOT_UPDATE_FAILED"]

\* #transactionContext: the context starts from copies of the mounted
\* private nodes and of the root tree.
transactionContext ==
  [privateNodes |-> privateNodes, rootTree |-> rootTree, changedPaths |-> <<>>]

\* The context after a write to path.
written(context, path) ==
  IF path[1] = "private"
  THEN [privateNodes |-> [context.privateNodes EXCEPT ![PrivateRoot] = @ \cup {path}],
        rootTree |-> [context.rootTree EXCEPT !.privateForest = @ \cup {path}],
        changedPaths |-> Append(context.changedPaths, path)]
  ELSE [privateNodes |-> context.privateNodes,
        rootTree |-> [context.rootTree EXCEPT !.publicRoot = @ \cup {path}],
        changedPaths |-> Append(context.changedPaths, path)]

\* transaction(handler, mutationOptions) is called: the context is made and
\* the handler starts.
transaction(skipPublish) ==
  /\ Len(transactions) < MaxTransactions
  /\ transactions' = Append(transactions,
                       [pc |-> "handler", skipPublish |-> skipPublish, context |-> transactionContext,
                        dataRoot |-> NoCID, proofs |-> <<>>, publishingStatus |-> NoStatus])
  /\ UNCHANGED <<rootTree, privateNodes, cidLog, localOnly, accumulated, running, events, called>>
  /\ UNCHANGED <<providerVars, cabinetVars, libraryVars, depotVars>>

\* The handler of transaction i has written path in its context and then
\* returned or thrown: await handler(context).
handled_assigning(i, path, throws) ==
  /\ i \in DOMAIN transactions
  /\ transactions[i].pc = "handler"
  /\ \E context \in {written(transactions[i].context, path)} :
       /\ transactions' = [transactions EXCEPT ![i].context = context,
                                               ![i].pc = IF throws THEN "failed" ELSE "commit"]
       /\ privateNodes' = context.privateNodes
       /\ rootTree' = context.rootTree
  /\ UNCHANGED <<cidLog, localOnly, accumulated, running, events, called>>
  /\ UNCHANGED <<providerVars, cabinetVars, libraryVars, depotVars>>

handled(i, path, throws) ==
  /\ i \in DOMAIN transactions
  /\ transactions[i].pc = "handler"
  /\ transactions' = [transactions EXCEPT ![i].context = written(@, path),
                                          ![i].pc = IF throws THEN "failed" ELSE "commit"]
  /\ UNCHANGED <<rootTree, privateNodes, cidLog, localOnly, accumulated, running, events, called>>
  /\ UNCHANGED <<providerVars, cabinetVars, libraryVars, depotVars>>

\* TransactionContext.commit(context) of transaction i has failed, or it has
\* returned and the rest of transaction() has run: the context's nodes and
\* tree are taken over, the data root is calculated, a local-change event is
\* emitted per changed path, and the publishing is started unless skipPublish.
commit(i, fails) ==
  /\ i \in DOMAIN transactions
  /\ transactions[i].pc = "commit"
  /\ IF fails
     THEN /\ transactions' = [transactions EXCEPT ![i].pc = "failed"]
          /\ UNCHANGED <<rootTree, privateNodes, events>>
     ELSE \E context \in {transactions[i].context} : \E dataRoot \in {RootTree_store(context.rootTree)} :
            /\ privateNodes' = context.privateNodes
            /\ rootTree' = context.rootTree
            /\ events' = events \o Map(LAMBDA changedPath :
                                         [name |-> "fileSystem:local-change", dataRoot |-> dataRoot,
                                          path |-> changedPath],
                                       context.changedPaths)
            /\ transactions' =
                 [transactions EXCEPT
                    ![i].dataRoot = dataRoot,
                    ![i].proofs = proofsFor(context.changedPaths),
                    ![i].pc = IF transactions[i].skipPublish THEN "done" ELSE "publish",
                    ![i].publishingStatus = IF transactions[i].skipPublish THEN statusNotPublishing ELSE @]
  /\ UNCHANGED <<cidLog, localOnly, accumulated, running, called>>
  /\ UNCHANGED <<providerVars, cabinetVars, libraryVars, depotVars>>

\* #publish of transaction i after cidLog.add([dataRoot]) has resolved: in
\* local-only mode that is all, else the debounced update is called.
publish_notLogging(i) ==
  /\ i \in DOMAIN transactions
  /\ transactions[i].pc = "publish"
  /\ cidLog' = cidLog
  /\ IF localOnly
     THEN /\ transactions' = [transactions EXCEPT ![i].pc = "done", ![i].publishingStatus = statusLocalOnly]
          /\ UNCHANGED accumulated
     ELSE /\ transactions' = [transactions EXCEPT ![i].pc = "debounce"]
          /\ accumulated' = Append(accumulated,
                              [caller |-> i, dataRoot |-> transactions[i].dataRoot,
                               proofs |-> transactions[i].proofs])
  /\ UNCHANGED <<rootTree, privateNodes, localOnly, running, events, called>>
  /\ UNCHANGED <<providerVars, cabinetVars, libraryVars, depotVars>>

publish(i) ==
  /\ i \in DOMAIN transactions
  /\ transactions[i].pc = "publish"
  /\ cidLog' = CIDLog_add(cidLog, <<transactions[i].dataRoot>>)
  /\ IF localOnly
     THEN /\ transactions' = [transactions EXCEPT ![i].pc = "done", ![i].publishingStatus = statusLocalOnly]
          /\ UNCHANGED accumulated
     ELSE /\ transactions' = [transactions EXCEPT ![i].pc = "debounce"]
          /\ accumulated' = Append(accumulated,
                              [caller |-> i, dataRoot |-> transactions[i].dataRoot,
                               proofs |-> transactions[i].proofs])
  /\ UNCHANGED <<rootTree, privateNodes, localOnly, running, events, called>>
  /\ UNCHANGED <<providerVars, cabinetVars, libraryVars, depotVars>>

\* The settle time has passed without another call: the debounced function
\* is invoked with the accumulated calls and calls depot.flush for the one
\* it picks.
invocation(args, picked) ==
  [args |-> args, dataRoot |-> picked.dataRoot, proofs |-> picked.proofs,
   pc |-> "depot.flush", updated |-> FALSE]

debouncedDataRootUpdate_first(args) == invocation(args, args[1])

debouncedDataRootUpdate(args) == invocation(args, args[Len(args)])

settled ==
  /\ Len(accumulated) > 0
  /\ \E started \in {debouncedDataRootUpdate(accumulated)} :
       /\ running' = Append(running, started)
       /\ called' = Append(called, [fn |-> "depot.flush", dataRoot |-> started.dataRoot,
                                    proofs |-> started.proofs, by |-> Len(running) + 1])
  /\ accumulated' = <<>>
  /\ UNCHANGED <<rootTree, privateNodes, cidLog, localOnly, transactions, events>>
  /\ UNCHANGED <<providerVars, cabinetVars, libraryVars, depotVars>>

\* depot.flush of invocation k has resolved, and updateDataRoot, called
\* next, has resolved with { updated }: the publish event is emitted when it
\* was updated, and every caller of the batch is given the status.
dataRootUpdated(k, updated) ==
  /\ k \in DOMAIN running
  /\ running[k].pc = "depot.flush"
  /\ running' = [running EXCEPT ![k].pc = "done", ![k].updated = updated]
  /\ called' = Append(called, [fn |-> "updateDataRoot", dataRoot |-> running[k].dataRoot,
                               proofs |-> running[k].proofs, by |-> k])
  /\ events' = IF updated
               THEN Append(events, [name |-> "fileSystem:publish", dataRoot |-> running[k].dataRoot,
                                    path |-> <<>>])
               ELSE events
  /\ \E status \in {IF updated THEN statusPublished ELSE statusFailed} :
       transactions' =
         [i \in DOMAIN transactions |->
            IF \E n \in DOMAIN running[k].args : running[k].args[n].caller = i
            THEN [transactions[i] EXCEPT !.pc = "done", !.publishingStatus = status]
            ELSE transactions[i]]
  /\ UNCHANGED <<rootTree, privateNodes, cidLog, localOnly, accumulated>>
  /\ UNCHANGED <<providerVars, cabinetVars, libraryVars, depotVars>>

InitFileSystem ==
  /\ Quiet
  /\ Stocked
  /\ applied = Idle
  /\ EmptyFileSystem
  /\ localOnly \in BOOLEAN
  /\ FreshDepot

NextFileSystem ==
  \/ \E skipPublish \in BOOLEAN : transaction(skipPublish)
  \/ \E i \in DOMAIN transactions : \E path \in WritePaths : \E throws \in BOOLEAN : handled(i, path, throws)
  \/ \E i \in DOMAIN transactions : \E fails \in BOOLEAN : commit(i, fails)
  \/ \E i \in DOMAIN transactions : publish(i)
  \/ settled
  \/ \E k \in DOMAIN running : \E updated \in BOOLEAN : dataRootUpdated(k, updated)

SpecFileSystem == InitFileSystem /\ [][NextFileSystem]_vars

\* The callers of the batch of invocation k, and the calls it made to fn.
Callers(k) == {running[k].args[n].caller : n \in DOMAIN running[k].args}
CallsBy(k, fn) == {j \in DOMAIN called : called[j].by = k /\ called[j].fn = fn}
Published == {j \in DOMAIN events : events[j].name = "fileSystem:publish"}

\* C37: the publishes that arrive within the settle time make one batch:
\* depot.flush and updateDataRoot are each called once for it, with the data
\* root and proofs of the most recent request of the batch; every caller of
\* the batch gets the same status, persisted and not local when updateDataRoot
\* reported updated, else not persisted for DATA_ROOT_UPDATE_FAILED; and
\* fileSystem:publish is emitted once per batch that was updated, for its
\* data root, and never otherwise.
C37_OneUpdatePerBatch ==
  /\ \A k \in DOMAIN running :
       LET args == running[k].args
           recent == args[Len(args)]
       IN  /\ Cardinality(CallsBy(k, "depot.flush")) = 1
           /\ Cardinality(CallsBy(k, "updateDataRoot")) = IF running[k].pc = "depot.flush" THEN 0 ELSE 1
           /\ \A j \in DOMAIN called :
                called[j].by = k =>
                  called[j].dataRoot = recent.dataRoot /\ called[j].proofs = recent.proofs
           /\ running[k].pc = "done" =>
                \A i \in Callers(k) :
                  transactions[i].publishingStatus =
                    IF running[k].updated THEN statusPublished ELSE statusFailed
           /\ \A n, m \in DOMAIN args : n # m => args[n].caller # args[m].caller
           /\ \A l \in DOMAIN running : l # k => Callers(l) \cap Callers(k) = {}
  /\ Cardinality(Published) =
       Cardinality({k \in DOMAIN running : running[k].pc = "done" /\ running[k].updated})
  /\ \A j \in Published :
       \E k \in DOMAIN running :
         running[k].pc = "done" /\ running[k].updated
           /\ events[j].dataRoot = running[k].args[Len(running[k].args)].dataRoot

C37_Witness ==
  \E k \in DOMAIN running :
    /\ running[k].pc = "done"
    /\ running[k].updated
    /\ Len(running[k].args) = 2
    /\ running[k].args[1].dataRoot # running[k].args[2].dataRoot
    /\ running[k].args[1].proofs # running[k].args[2].proofs
    /\ Len(called) = 2
    /\ Cardinality(Published) = 1
    /\ \A i \in DOMAIN transactions : transactions[i].publishingStatus = statusPublished

\* C38: a data root is in the CID log before it is handed to the debounced
\* update or to depot.flush and updateDataRoot; in local-only mode a publish
\* appends the data root and reports it persisted locally without any call
\* to the updater; a transaction with skipPublish appends nothing, reaches no
\* updater and reports DISABLED_BY_OPTIONS.
C38_LoggedBeforePublished ==
  [][/\ \A j \in DOMAIN called' : called'[j].dataRoot \in Elements(cidLog')
     /\ \A n \in DOMAIN accumulated' :
          /\ accumulated'[n].dataRoot \in Elements(cidLog')
          /\ ~transactions'[accumulated'[n].caller].skipPublish
     /\ \A i \in DOMAIN transactions :
          /\ (transactions[i].pc = "publish" /\ transactions'[i].pc # "publish") =>
               /\ cidLog' = Append(cidLog, transactions[i].dataRoot)
               /\ called' = called
               /\ localOnly =>
                    /\ transactions'[i].pc = "done"
                    /\ transactions'[i].publishingStatus = statusLocalOnly
                    /\ accumulated' = accumulated
          /\ (transactions[i].skipPublish /\ transactions[i].pc = "commit"
                /\ transactions'[i].pc \notin {"commit", "failed"}) =>
               /\ transactions'[i].pc = "done"
               /\ transactions'[i].publishingStatus = statusNotPublishing
               /\ cidLog' = cidLog
               /\ called' = called
               /\ accumulated' = accumulated
          /\ (transactions[i].skipPublish /\ transactions[i].pc = "done") =>
               transactions'[i] = transactions[i]
     /\ localOnly => called' = <<>> /\ accumulated' = <<>>]_vars

C38_Witness ==
  /\ Len(transactions) = 2
  /\ transactions[1].skipPublish
  /\ transactions[1].publishingStatus = statusNotPublishing
  /\ transactions[1].dataRoot \notin Elements(cidLog)
  /\ ~transactions[2].skipPublish
  /\ cidLog = <<transactions[2].dataRoot>>
  /\ \E j \in DOMAIN called : called[j].fn = "updateDataRoot" /\ called[j].dataRoot = cidLog[1]

C38_WitnessLocalOnly ==
  /\ localOnly
  /\ Len(transactions) = 1
  /\ transactions[1].publishingStatus = statusLocalOnly
  /\ cidLog = <<transactions[1].dataRoot>>

\* C39: a transaction whose handler throws, or whose commit fails, leaves
\* the mounted private nodes and the root tree as they were, emits no
\* local-change event, appends nothing to the CID log and publishes nothing,
\* in the step that fails, in the steps of its handler before, and afterwards.
C39_FailedTransactionLeavesNoTrace ==
  [][\A i \in DOMAIN transactions' :
       /\ (transactions'[i].pc = "failed" /\ (i \in DOMAIN transactions => transactions[i].pc # "failed"))
            => UNCHANGED <<privateNodes, rootTree, events, cidLog, accumulated, running, called>>
       /\ (i \in DOMAIN transactions /\ transactions[i].pc = "handler" /\ transactions'[i].pc # "handler")
            => UNCHANGED <<privateNodes, rootTree, events, cidLog, accumulated, running, called>>
       /\ (i \in DOMAIN transactions /\ transactions[i].pc = "failed")
            => transactions'[i] = transactions[i]
       /\ transactions'[i].pc = "failed" =>
            /\ transactions'[i].dataRoot = NoCID
            /\ transactions'[i].publishingStatus = NoStatus
            /\ \A n \in DOMAIN accumulated' : accumulated'[n].caller # i
            /\ \A k \in DOMAIN running' : \A n \in DOMAIN running'[k].args : running'[k].args[n].caller # i]_vars

C39_Witness ==
  /\ Len(transactions) = 2
  /\ transactions[1].pc = "failed"
  /\ transactions[2].pc = "failed"
  /\ transactions[1].context.rootTree.privateForest # {}
  /\ transactions[2].context.rootTree.publicRoot # {}
  /\ rootTree = [publicRoot |-> {}, privateForest |-> {}]
  /\ privateNodes[PrivateRoot] = {}
  /\ events = <<>>
  /\ cidLog = <<>>
  /\ called = <<>>

----------------------------------------------------------------------------
(* The depot: flush and its transport *)

MaxFlushes == 3

\* flush(dataRoot, proofs) is called: it returns at once when the program
\* is offline; else initiateTransport returns the transport there is, or
\* calls createTransport and waits for it.
flush ==
  /\ Len(flushes) < MaxFlushes
  /\ flushes' = Append(flushes,
                       IF ~online THEN "offline"
                       ELSE IF transport # NoTransport THEN "reused"
                       ELSE "createTransport")
  /\ UNCHANGED <<transport, online>>
  /\ UNCHANGED <<providerVars, cabinetVars, libraryVars, fileSystemVars>>

\* createTransport, called by flush i, has resolved: t is assigned.
createTransport(i) ==
  /\ i \in DOMAIN flushes
  /\ flushes[i] = "createTransport"
  /\ transport' = i
  /\ flushes' = [flushes EXCEPT ![i] = "created"]
  /\ UNCHANGED online
  /\ UNCHANGED <<providerVars, cabinetVars, libraryVars, fileSystemVars>>

\* The program goes offline or comes back online.
connectivity ==
  /\ online' = ~online
  /\ UNCHANGED <<transport, flushes>>
  /\ UNCHANGED <<providerVars, cabinetVars, libraryVars, fileSystemVars>>

InitDepot ==
  /\ Quiet
  /\ Stocked
  /\ applied = Idle
  /\ EmptyFileSystem
  /\ localOnly = FALSE
  /\ FreshDepot

NextDepot ==
  \/ flush
  \/ \E i \in DOMAIN flushes : createTransport(i)
  \/ connectivity

SpecDepot == InitDepot /\ [][NextDepot]_vars

\* The flushes that ran createTransport.
Creating == {i \in DOMAIN flushes : flushes[i] \in {"createTransport", "created"}}

\* C40: createTransport runs at most once whatever the order of the flush
\* calls, a flush after the transport exists reuses it, and a flush made
\* while offline creates no transport.
C40_TransportCreatedOnce ==
  /\ Cardinality(Creating) <= 1
  /\ \A i \in DOMAIN flushes :
       (flushes[i] = "created" /\ transport # NoTransport) => transport = i
  /\ \A i \in DOMAIN flushes : flushes[i] = "offline" => i \notin Creating

============================================================================
